---- MODULE Spec2Model ----
(***************************************************************************)
(* Thumbnail extraction of mpvlibAndroid (app/src/main/jni/thumbnail.cpp). *)
(* The module models the targeted extraction grabThumbnailFast, the codec  *)
(* resolver cache, the hardware device context manager and the cache-clear *)
(* entry point, as they run on concurrent JNI caller threads.              *)
(*                                                                         *)
(* Times are counted in ticks of half a second.  Every threshold the code  *)
(* compares a frame time with (position - tolerance) is a whole number of  *)
(* ticks, so a frame time may be replaced by its floor in ticks without    *)
(* changing the outcome of any comparison.                                 *)
(***************************************************************************)
EXTENDS Integers, Sequences, FiniteSets, TLC

\* ------------------------------------------------------------------ bounds
\* packets a finite media file of the decode-loop specification delivers
MaxPackets == 2
\* frames the decoder may hand out for one submitted packet
MaxFramesPerPacket == 2
\* saturation of the call counters kept for the resolver and the registry
MaxCount == 2

\* ------------------------------------------------------- program constants
MAX_FRAMES == 300
MAX_DIMENSION == 4096
QUALITY_FAST == 0
QUALITY_NORMAL == 1
QUALITY_HQ == 2
\* AV_NOPTS_VALUE, the "no timestamp" mark of a frame
AV_NOPTS_VALUE == -1
\* values of pointers and handles
NULL == "NULL"
BITMAP == "bitmap"
NoThread == "none"

Threads == {"t1", "t2"}
\* the hardware device buffers the allocator can hand out
DevIds == {"dev1", "dev2"}
\* codec identifiers: the registry knows the first one only
CodecIds == {"h264", "unknown"}
Resources == {"container", "decoder", "hwref", "packet", "frame"}

VARIABLES
    pc,                     \* per thread: the place the thread is at
    loc,                    \* per thread: arguments and locals of its call
    g_thumb_mutex,          \* owner of g_thumb_mutex, or NoThread
    g_codec_cache_mutex,    \* owner of g_codec_cache_mutex, or NoThread
    g_hw_ctx_mutex,         \* owner of g_hw_ctx_mutex, or NoThread
    g_codec_cache,          \* codec id -> descriptor, for the cached ids
    g_hw_device_ctx,        \* the cached device reference, or NULL
    g_hw_ctx_initialized,
    g_hw_ctx_available,
    dev_refcount,           \* per device buffer: its reference count (0: freed)
    hw_probes,              \* device probes since the last cache-clear
    hw_acquires,            \* init_hw_device_context calls since the last cache-clear
    resolver_calls,         \* per codec id: resolver calls since the last clear
    registry_lookups,       \* per codec id: registry lookups since the last clear
    requests,               \* the calls (arguments, file named) the application issues
    g_thumb_vm,             \* the Java VM handed to FFmpeg, or NULL
    g_thumb_appctx          \* the global reference to the application context, or NULL

lockVars == <<g_thumb_mutex, g_codec_cache_mutex, g_hw_ctx_mutex>>
cacheVars == <<g_codec_cache, resolver_calls, registry_lookups>>
hwVars == <<g_hw_device_ctx, g_hw_ctx_initialized, g_hw_ctx_available,
            dev_refcount, hw_probes, hw_acquires>>
jniVars == <<g_thumb_vm, g_thumb_appctx>>
vars == <<pc, loc, lockVars, cacheVars, hwVars, requests, jniVars>>

\* ------------------------------------------------------------ environment
\* A media file as the demuxer sees it: whether it can be opened, the media
\* types of its streams in index order, the codec id and the time base of its
\* video streams, and how many packets it delivers (endless: a live source).
MediaFile(exists, streams, codec_id, num, den, endless, packets, pts, best, sizes) ==
    [exists |-> exists, streams |-> streams, codec_id |-> codec_id,
     time_base |-> [num |-> num, den |-> den],
     endless |-> endless, packets |-> packets,
     \* the presentation and best-effort timestamps its frames may carry, in
     \* time-base units
     pts |-> pts, best |-> best,
     \* the width and height its decoded frames may have
     sizes |-> sizes]

\* INT64_MAX / AV_TIME_BASE seconds lie beyond the integers of the model
\* checker: SeekLimit is the position of the model that stands for it, far
\* above every frame time, and the positions from it on stand for the targets
\* at or above the limit
SeekLimit == 1000 * 1000 * 1000

ShortPts == {AV_NOPTS_VALUE, 5, 10}
ShortBest == {AV_NOPTS_VALUE, 0}
RichPts == {AV_NOPTS_VALUE, -12, 0, 2, 4, 5, 6, 7, 10}
RichBest == {AV_NOPTS_VALUE, 18}
Landscape == {<<16, 9>>}

ShortVideo ==
    MediaFile(TRUE, <<"audio", "video", "video">>, "h264", 1, 2, FALSE, 1, ShortPts,
              ShortBest,
              Landscape)
NoVideo ==
    MediaFile(TRUE, <<"audio">>, "h264", 1, 2, FALSE, 1, ShortPts, ShortBest,
              Landscape)
UnknownCodec ==
    MediaFile(TRUE, <<"video">>, "unknown", 1, 2, FALSE, 1, ShortPts, ShortBest,
              Landscape)
Missing == MediaFile(FALSE, <<>>, "h264", 1, 2, FALSE, 0, ShortPts, ShortBest, Landscape)
\* files with timestamps on both sides of every tier's windows, in time bases
\* 1/2 and 1/4
RichHalves ==
    MediaFile(TRUE, <<"video", "audio">>, "h264", 1, 2, FALSE, MaxPackets,
              RichPts, RichBest, Landscape)
RichQuarters ==
    MediaFile(TRUE, <<"video">>, "h264", 1, 4, FALSE, MaxPackets, RichPts, RichBest,
              Landscape)
\* a source that never ends, none of whose frames reaches 2 s
Live ==
    MediaFile(TRUE, <<"video">>, "h264", 1, 2, TRUE, 0, {AV_NOPTS_VALUE, 2}, ShortBest,
              Landscape)
\* a source that never ends, none of whose frames carries a timestamp
Untimed ==
    MediaFile(TRUE, <<"video">>, "h264", 1, 2, TRUE, 0, {AV_NOPTS_VALUE},
              {AV_NOPTS_VALUE}, Landscape)
\* a file some of whose packets the decoder rejects
Damaged ==
    MediaFile(TRUE, <<"video">>, "h264", 1, 2, FALSE, MaxPackets, {5}, {AV_NOPTS_VALUE},
              Landscape)

Request(position, dimension, use_hw_dec, quality, path_ok, file) ==
    [position |-> position, dimension |-> dimension, use_hw_dec |-> use_hw_dec,
     quality |-> quality, path_ok |-> path_ok, file |-> file]

\* calls whose arguments the validation rejects, or whose path is unusable
BadRequests ==
    {Request(8, d, TRUE, 1, TRUE, ShortVideo) : d \in {0, -1, MAX_DIMENSION + 1}}
    \cup {Request(-1, 64, TRUE, 1, TRUE, ShortVideo),
          Request(-1, 0, TRUE, 1, TRUE, ShortVideo),
          Request(8, 64, TRUE, 1, FALSE, ShortVideo),
          Request(8, MAX_DIMENSION, FALSE, 1, TRUE, Missing)}

\* the calls of the concurrent specification
ConcurrentRequests ==
    BadRequests
    \cup {Request(p, 64, h, q, TRUE, ShortVideo) :
            p \in {0, 8}, h \in BOOLEAN, q \in {QUALITY_NORMAL, 3}}
    \cup {Request(8, 1, FALSE, QUALITY_HQ, TRUE, NoVideo),
          Request(0, 64, TRUE, QUALITY_FAST, TRUE, UnknownCodec)}

\* the calls of the decode-loop specification: every tier with the targets
\* 0 s, 0.5 s and 4 s on the file in half seconds, and with the target 4 s on
\* the file in quarter seconds; the smallest and the largest dimension; the
\* tiers -1 and 3; the targets 4.5 s and 5 s, and the targets just below and
\* at the seek limit, on the short file; the first frame of the damaged file
LoopTiers == {QUALITY_FAST, QUALITY_NORMAL, QUALITY_HQ}

LoopRequests ==
    BadRequests
    \cup {Request(p, 64, FALSE, q, TRUE, RichHalves) : p \in {0, 1, 8}, q \in LoopTiers}
    \cup {Request(8, 64, FALSE, q, TRUE, RichQuarters) : q \in LoopTiers}
    \cup {Request(0, d, FALSE, QUALITY_NORMAL, TRUE, RichHalves) : d \in {1, MAX_DIMENSION}}
    \cup {Request(1, 64, FALSE, q, TRUE, RichHalves) : q \in {-1, 3}}
    \cup {Request(p, 64, FALSE, q, TRUE, ShortVideo) : p \in {9, 10}, q \in LoopTiers}
    \cup {Request(p, 64, FALSE, QUALITY_NORMAL, TRUE, ShortVideo) :
            p \in {SeekLimit - 1, SeekLimit}}
    \cup {Request(0, 64, FALSE, QUALITY_NORMAL, TRUE, Damaged)}

\* the calls of the frame-limit specification: every tier with the target 4 s
\* on the endless source, and for each tier the target at its match tolerance
\* and the next one on the source without timestamps
EndlessRequests ==
    {Request(8, 64, FALSE, q, TRUE, Live) : q \in LoopTiers}
    \cup {Request(p, 64, FALSE, QUALITY_FAST, TRUE, Untimed) : p \in {4, 5}}
    \cup {Request(p, 64, FALSE, QUALITY_NORMAL, TRUE, Untimed) : p \in {2, 3}}
    \cup {Request(p, 64, FALSE, QUALITY_HQ, TRUE, Untimed) : p \in {1, 2}}

\* how av_seek_frame can end on a file: the file in quarter seconds has no
\* index to seek by
SeekResults(file) == IF file = RichQuarters THEN BOOLEAN ELSE {TRUE}

\* how avcodec_send_packet can end on a packet of a file
SendResults(file) == IF file = Damaged THEN BOOLEAN ELSE {TRUE}

\* the frames the decoder may produce from a file
Frames(file) == [pts : file.pts, best_effort_timestamp : file.best]

\* avcodec_find_decoder: the decoder registry
avcodec_find_decoder(codec_id) ==
    IF codec_id = "h264" THEN "dec_h264" ELSE NULL

\* ------------------------------------------------------------------ state
NoCount == [r \in Resources |-> 0]

\* before every frame time of the model
Earliest == 0 - 1000

\* format_ctx and codec_ctx before the tier's switch has set them
NoAnalysis == [max_analyze_duration |-> 0, probesize |-> 0]

NoDecoderConfig ==
    [thread_count |-> 1, thread_type |-> NULL, low_delay |-> FALSE, fast |-> FALSE,
     skip_frame |-> "AVDISCARD_DEFAULT", skip_idct |-> "AVDISCARD_DEFAULT",
     skip_loop_filter |-> "AVDISCARD_DEFAULT"]

\* no region cut from a snapshot yet
NoCrop == [left |-> 0, top |-> 0, width |-> 0, height |-> 0]

\* no answer of the playback engine yet
NoResponse ==
    [map |-> FALSE, size |-> <<0, 0>>, stride |-> 0, format |-> "rgb0", data |-> FALSE,
     order |-> <<"w", "h", "stride", "format", "data">>, wrong |-> {}]

\* the calls a snapshot has made: whether the engine answered, and
\* mpv_free_node_contents, sws_getContext and NewIntArray; none yet
NoSnapshotCalls ==
    [answered |-> FALSE, freed |-> FALSE, scaler |-> FALSE, array |-> FALSE]

\* no run of the frame selection yet: the frame times, and the frame
\* selected with and without the skip test (0: none)
NoTrial == [times |-> <<>>, with |-> 0, without |-> 0]

\* the decisions of an extraction: whether it seeks and with which flag, the
\* frames it skips, the frames it hands to the conversion, the frame it
\* returns (0: none) and how it ends; none yet
NoRun == [skipped |-> {}, offered |-> {}, accepted |-> 0]

NoDecisions == [seek |-> FALSE, flag |-> NULL, run |-> NoRun, outcome |-> "none"]

\* no seek target computed yet: the time base, whether a product left the
\* 64-bit range, and the target handed to av_seek_frame
NoSeekTarget == [num |-> 1, den |-> 1, overflow |-> FALSE, target |-> 0]

\* no Bitmap
NoPixels ==
    [ref |-> NULL, width |-> 0, height |-> 0, sws_algorithm |-> NULL, filled |-> FALSE]

LocInit ==
    [req |-> Request(0, 0, FALSE, 0, FALSE, Missing),
     quality |-> 0,
     format_ctx |-> NULL, remaining |-> 0,
     video_stream_idx |-> -1,
     codec |-> NULL, codec_ctx |-> NULL, hw_device_ctx |-> NULL,
     hw_ok |-> FALSE, resolved |-> FALSE, hw_asked |-> FALSE,
     seek_attempted |-> FALSE, seek_ok |-> FALSE, seek_flags |-> NULL,
     flushed |-> FALSE,
     packet |-> NULL, packet_ref |-> FALSE, frame |-> NULL, frame_ref |-> FALSE,
     bitmap |-> NULL, pixels |-> NoPixels, crop |-> NoCrop, frame_size |-> <<0, 0>>,
     response |-> NoResponse, snapshot |-> NoSnapshotCalls, trial |-> NoTrial,
     tiered |-> NoDecisions, single |-> NoDecisions, seek_target |-> NoSeekTarget,
     analysis |-> NoAnalysis, decoder |-> NoDecoderConfig, tolerances |-> <<0, 0>>,
     frame_found |-> FALSE, frames_decoded |-> 0,
     got |-> 0,
     \* history of the call, kept for the properties
     opens |-> 0, acq |-> NoCount, rel |-> NoCount,
     prev_max |-> Earliest, accepts |-> 0, sel_time |-> Earliest,
     sel_prev_max |-> Earliest,
     conv_failed |-> FALSE, too_early |-> FALSE, rejected |-> FALSE,
     result |-> NULL, outcome |-> "none"]

ProgramInit ==
    /\ pc = [t \in Threads |-> "idle"]
    /\ loc = [t \in Threads |-> LocInit]
    /\ g_thumb_mutex = NoThread
    /\ g_codec_cache_mutex = NoThread
    /\ g_hw_ctx_mutex = NoThread
    /\ g_codec_cache = [c \in CodecIds |-> NULL]
    /\ g_hw_device_ctx = NULL
    /\ g_hw_ctx_initialized = FALSE
    /\ g_hw_ctx_available = FALSE
    /\ dev_refcount = [d \in DevIds |-> 0]
    /\ hw_probes = 0
    /\ hw_acquires = 0
    /\ resolver_calls = [c \in CodecIds |-> 0]
    /\ registry_lookups = [c \in CodecIds |-> 0]
    /\ g_thumb_vm = NULL
    /\ g_thumb_appctx = NULL

Init == ProgramInit /\ requests = ConcurrentRequests

InitLoop == ProgramInit /\ requests = LoopRequests

InitEndless == ProgramInit /\ requests = EndlessRequests

\* ---------------------------------------------------------------- helpers
\* The hand-back of a result touches the returning thread only, so it is taken
\* as the step that follows the return: no other thread moves in between.
Returning == \E t \in Threads : pc[t] \in {"gf_ret", "cc_ret"}

At(self, label) == pc[self] = label /\ ~Returning

Goto(self, label) == pc' = [pc EXCEPT ![self] = label]

SetLoc(self, l) == loc' = [loc EXCEPT ![self] = l]

Bump(n) == IF n < MaxCount THEN n + 1 ELSE n

Acquire(l, r) == [l EXCEPT !.acq[r] = @ + 1]

Release(l, r) == [l EXCEPT !.rel[r] = @ + 1]

\* a guard that never waits
MutexFreeAlways(m) == TRUE

\* std::lock_guard on a mutex: the constructor blocks until the mutex is free
MutexFree(m) == m = NoThread

\* ---------------------------------------------------------- pure functions
\* av_buffer_unref on device d: the count drops, and the buffer is freed when
\* it reaches zero
av_buffer_unref(rc, d) ==
    IF d = NULL \/ rc[d] = 0 THEN rc ELSE [rc EXCEPT ![d] = @ - 1]

\* av_buffer_ref: a new reference to the same buffer
av_buffer_ref(rc, d) == [rc EXCEPT ![d] = @ + 1]

\* a validation without the upper limit
DimensionValidNoUpper(dimension) == ~(dimension <= 0)

\* the parameter validation of grabThumbnailFast
DimensionValid(dimension) == ~(dimension <= 0 \/ dimension > MAX_DIMENSION)

PositionValid(position) == ~(position < 0)

\* an unknown tier taken for the fast one
ClampQualityToFast(quality) == IF quality < 0 \/ quality > 2 THEN 0 ELSE quality

\* if (quality < 0 || quality > 2) quality = 1
ClampQuality(quality) == IF quality < 0 \/ quality > 2 THEN 1 ELSE quality

\* switch (quality) before avformat_find_stream_info
AnalysisParams(quality) ==
    CASE quality = QUALITY_FAST -> [max_analyze_duration |-> 500000, probesize |-> 2000000]
      [] quality = QUALITY_HQ -> [max_analyze_duration |-> 5000000, probesize |-> 10000000]
      [] OTHER -> [max_analyze_duration |-> 1000000, probesize |-> 5000000]

\* switch (quality) on codec_ctx
DecoderConfig(quality) ==
    CASE quality = QUALITY_FAST ->
           [thread_count |-> 0, thread_type |-> "FF_THREAD_SLICE", low_delay |-> TRUE,
            fast |-> TRUE, skip_frame |-> "AVDISCARD_NONREF",
            skip_idct |-> "AVDISCARD_BIDIR", skip_loop_filter |-> "AVDISCARD_ALL"]
      [] quality = QUALITY_HQ ->
           [thread_count |-> 4, thread_type |-> "FF_THREAD_FRAME", low_delay |-> FALSE,
            fast |-> FALSE, skip_frame |-> "AVDISCARD_NONE",
            skip_idct |-> "AVDISCARD_NONE", skip_loop_filter |-> "AVDISCARD_NONE"]
      [] OTHER ->
           [thread_count |-> 2, thread_type |-> "FF_THREAD_SLICE", low_delay |-> TRUE,
            fast |-> TRUE, skip_frame |-> "AVDISCARD_DEFAULT",
            skip_idct |-> "AVDISCARD_DEFAULT", skip_loop_filter |-> "AVDISCARD_DEFAULT"]

\* the last stream whose media type is video
FindVideoStreamLast(streams) ==
    IF \E i \in 1..Len(streams) : streams[i] = "video"
    THEN (CHOOSE i \in 1..Len(streams) :
             /\ streams[i] = "video"
             /\ \A j \in (i + 1)..Len(streams) : streams[j] # "video") - 1
    ELSE -1

\* the first stream whose media type is video, counted from 0; -1 if none
FindVideoStream(streams) ==
    IF \E i \in 1..Len(streams) : streams[i] = "video"
    THEN (CHOOSE i \in 1..Len(streams) :
             /\ streams[i] = "video"
             /\ \A j \in 1..(i - 1) : streams[j] # "video") - 1
    ELSE -1

\* a guard without the upper limit
SeekGuardNoLimit(position) == position > 0

\* if (position > 0.0 && position < INT64_MAX / AV_TIME_BASE)
SeekGuard(position) == position > 0 /\ position < SeekLimit

\* a short seek up to and including 5 s
SeekFlagsShortUpTo(quality, position) ==
    CASE quality = QUALITY_FAST -> "AVSEEK_FLAG_ANY"
      [] quality = QUALITY_HQ -> "AVSEEK_FLAG_BACKWARD"
      [] OTHER -> IF position <= 10 THEN "AVSEEK_FLAG_ANY"
                  ELSE "AVSEEK_FLAG_BACKWARD"

\* switch (quality) seek_flags; 5.0 s are 10 ticks
SeekFlags(quality, position) ==
    CASE quality = QUALITY_FAST -> "AVSEEK_FLAG_ANY"
      [] quality = QUALITY_HQ -> "AVSEEK_FLAG_BACKWARD"
      [] OTHER -> IF position < 10 THEN "AVSEEK_FLAG_ANY"
                  ELSE "AVSEEK_FLAG_BACKWARD"

\* timestamp * av_q2d(time_base), in ticks of half a second, rounded down
TimeOf(ts, time_base) == (ts * time_base.num * 2) \div time_base.den

\* a frame without timestamps taken for a late one
FrameTimeUntimedLate(f, time_base) ==
    IF f.pts # AV_NOPTS_VALUE THEN TimeOf(f.pts, time_base)
    ELSE IF f.best_effort_timestamp # AV_NOPTS_VALUE
         THEN TimeOf(f.best_effort_timestamp, time_base)
         ELSE 1000

\* the best-effort timestamp taken first
FrameTimePrefersBest(f, time_base) ==
    IF f.best_effort_timestamp # AV_NOPTS_VALUE
    THEN TimeOf(f.best_effort_timestamp, time_base)
    ELSE IF f.pts # AV_NOPTS_VALUE THEN TimeOf(f.pts, time_base)
         ELSE 0

\* frame_time: 0.0 unless the frame carries pts or best_effort_timestamp
FrameTime(f, time_base) ==
    IF f.pts # AV_NOPTS_VALUE THEN TimeOf(f.pts, time_base)
    ELSE IF f.best_effort_timestamp # AV_NOPTS_VALUE
         THEN TimeOf(f.best_effort_timestamp, time_base)
         ELSE 0

\* tolerances of the quality tiers, in ticks: 3.0, 0.5 and 1.5 seconds
SkipTolerance(quality) ==
    CASE quality = QUALITY_FAST -> 6
      [] quality = QUALITY_HQ -> 1
      [] OTHER -> 3

\* an accept window wider than every skip window
MatchToleranceWide(quality) == 4 * 2

\* 2.0, 0.5 and 1.0 seconds
MatchTolerance(quality) ==
    CASE quality = QUALITY_FAST -> 4
      [] quality = QUALITY_HQ -> 1
      [] OTHER -> 2

\* no frame is too early
SkipFrameNever(position, frame_time, quality) == FALSE

\* if (position > 0.0 && frame_time < position - skip_tolerance)
SkipFrame(position, frame_time, quality) ==
    position > 0 /\ frame_time < position - SkipTolerance(quality)

\* an accept window that treats the target 0 like any other
AcceptFrameNoZero(position, frame_time, quality) ==
    frame_time >= position - MatchTolerance(quality)

\* the accept window: position == 0.0 || frame_time >= position - match_tolerance
AcceptFrame(position, frame_time, quality) ==
    position = 0 \/ frame_time >= position - MatchTolerance(quality)

\* the outer loop's condition, once av_read_frame has delivered a packet
LoopGuard(frames_decoded) == frames_decoded < MAX_FRAMES

\* ------------------------------------------------------- frame_to_bitmap
\* The products x * ((float)target / longer) which IEEE single precision
\* rounds to a value just below the whole number x * target / longer, as
\* <<x, target, longer>>, among the frame sizes and dimensions of the model.
RoundedBelow ==
    {<<23, 7, 23>>, <<22, 13, 22>>, <<37, 3, 37>>,
     <<854, 1, 854>>, <<854, 2, 854>>, <<854, 7, 854>>, <<854, 64, 854>>,
     <<854, 256, 854>>}

\* (int)(x * scale) with scale = (float)target / longer
Truncate(x, target, longer) ==
    IF <<x, target, longer>> \in RoundedBelow
    THEN (x * target) \div longer - 1
    ELSE (x * target) \div longer

\* no lower limit
AtLeastZero(n) == n

\* if (width < 1) width = 1
AtLeastOne(n) == IF n < 1 THEN 1 ELSE n

\* a frame brought to the bound whatever its size
ScaledSizeToBound(width, height, target_dimension) ==
    LET longer == IF width >= height THEN width ELSE height
    IN [width |-> AtLeastOne(Truncate(width, target_dimension, longer)),
        height |-> AtLeastOne(Truncate(height, target_dimension, longer))]

\* the output size: the longer side is brought down to target_dimension if it
\* exceeds it, the other side by the same scale, and neither below 1
ScaledSize(width, height, target_dimension) ==
    LET longer == IF width >= height THEN width ELSE height
        scaled == width > 0 /\ height > 0 /\ longer > target_dimension
    IN [width |-> AtLeastOne(IF scaled THEN Truncate(width, target_dimension, longer)
                             ELSE width),
        height |-> AtLeastOne(IF scaled THEN Truncate(height, target_dimension, longer)
                              ELSE height)]

\* the filters ordered by cost along the tiers
SwsAlgorithmByCost(quality) ==
    CASE quality = QUALITY_FAST -> "SWS_POINT"
      [] quality = QUALITY_HQ -> "SWS_LANCZOS"
      [] OTHER -> "SWS_FAST_BILINEAR"

\* the scaler's algorithm for a tier
SwsAlgorithm(quality) ==
    CASE quality = QUALITY_FAST -> "SWS_FAST_BILINEAR"
      [] quality = QUALITY_HQ -> "SWS_LANCZOS"
      [] OTHER -> "SWS_POINT"

\* how a conversion goes: which of its calls fails, if any
ConversionFates ==
    {"no_scaler", "no_array", "no_elements", "scale_failed", "no_config", "no_bitmap",
     "ok"}

\* frame_to_bitmap: the Bitmap made from a frame of the given size, or none.
\* The result of sws_scale is not looked at, so a Bitmap is made of the buffer
\* also when the scaler wrote nothing into it.
frame_to_bitmap(size, target_dimension, quality, fate) ==
    IF fate \in {"no_scaler", "no_array", "no_elements", "no_config", "no_bitmap"}
    THEN NoPixels
    ELSE LET out == ScaledSize(size[1], size[2], target_dimension)
         IN [ref |-> BITMAP, width |-> out.width, height |-> out.height,
             sws_algorithm |-> SwsAlgorithm(quality), filled |-> fate = "ok"]

\* ------------------------------------------------- grabThumbnailFast, entry
\* a caller enters the function
CallGrabThumbnailFast(self) ==
    /\ At(self, "idle")
    /\ Goto(self, "gf_lock")
    /\ UNCHANGED <<loc, lockVars, cacheVars, hwVars, requests, jniVars>>

\* std::lock_guard<std::mutex> lock(g_thumb_mutex)
gf_lock(self) ==
    /\ At(self, "gf_lock")
    /\ MutexFree(g_thumb_mutex)
    /\ g_thumb_mutex' = self
    /\ \E r \in requests :
          SetLoc(self, [LocInit EXCEPT !.req = r, !.quality = r.quality])
    /\ Goto(self, "gf_validate")
    /\ UNCHANGED <<g_codec_cache_mutex, g_hw_ctx_mutex, cacheVars, hwVars, requests, jniVars>>

\* a return statement of grabThumbnailFast: the lock guard releases the mutex
Return(self, l, outcome, bitmap) ==
    /\ SetLoc(self, [l EXCEPT !.outcome = outcome, !.result = bitmap])
    /\ Goto(self, "gf_ret")
    /\ g_thumb_mutex' = NoThread
    /\ UNCHANGED <<g_codec_cache_mutex, g_hw_ctx_mutex>>

Continue(self, l, label) ==
    /\ SetLoc(self, l)
    /\ Goto(self, label)
    /\ UNCHANGED lockVars

\* the validation of dimension, position, quality and path
gf_validate(self) ==
    /\ At(self, "gf_validate")
    /\ LET l == loc[self] IN
       IF ~DimensionValid(l.req.dimension) THEN Return(self, l, "InvalidArgument", NULL)
       ELSE IF ~PositionValid(l.req.position) THEN Return(self, l, "InvalidArgument", NULL)
       ELSE IF ~l.req.path_ok
            THEN Return(self, [l EXCEPT !.quality = ClampQuality(l.quality)],
                        "InvalidPath", NULL)
       ELSE Continue(self, [l EXCEPT !.quality = ClampQuality(l.quality)], "gf_open")
    /\ UNCHANGED <<cacheVars, hwVars, requests, jniVars>>

\* avformat_open_input; on failure nothing is held
gf_open(self) ==
    /\ At(self, "gf_open")
    /\ LET l == [loc[self] EXCEPT !.opens = @ + 1] IN
       \E ok \in {l.req.file.exists, FALSE} :
          IF ~ok THEN Return(self, l, "OpenError", NULL)
          ELSE Continue(self, Acquire([l EXCEPT !.format_ctx = "open",
                                                !.remaining = l.req.file.packets],
                                      "container"),
                        "gf_info")
    /\ UNCHANGED <<cacheVars, hwVars, requests, jniVars>>

\* avformat_close_input
CloseInput(l) == Release([l EXCEPT !.format_ctx = NULL], "container")

\* avformat_find_stream_info, bounded by the tier's analysis limits
gf_info(self) ==
    /\ At(self, "gf_info")
    /\ LET l == [loc[self] EXCEPT !.analysis = AnalysisParams(loc[self].quality)] IN
       \E ok \in BOOLEAN :
          IF ~ok THEN Return(self, CloseInput(l), "OpenError", NULL)
          ELSE Continue(self, l, "gf_stream")
    /\ UNCHANGED <<cacheVars, hwVars, requests, jniVars>>

\* the search for the video stream
gf_stream(self) ==
    /\ At(self, "gf_stream")
    /\ LET l == [loc[self] EXCEPT
                   !.video_stream_idx = FindVideoStream(loc[self].req.file.streams)] IN
       IF l.video_stream_idx = -1
       THEN Return(self, CloseInput(l), "NoVideoStream", NULL)
       ELSE Continue(self, l, "gcc_lock")
    /\ UNCHANGED <<cacheVars, hwVars, requests, jniVars>>

\* ------------------------------------------------------- get_cached_codec
\* std::lock_guard<std::mutex> lock(g_codec_cache_mutex)
gcc_lock(self) ==
    /\ At(self, "gcc_lock")
    /\ MutexFree(g_codec_cache_mutex)
    /\ g_codec_cache_mutex' = self
    /\ Goto(self, "gcc")
    /\ UNCHANGED <<loc, g_thumb_mutex, g_hw_ctx_mutex, cacheVars, hwVars, requests, jniVars>>

\* a resolver that stores nothing
CacheInsertNothing(cache, codec_id, codec) == cache

\* a resolver that also stores the lookups that found nothing
CacheInsertMisses(cache, codec_id, codec) ==
    [cache EXCEPT ![codec_id] = IF codec # NULL THEN codec ELSE "no_decoder"]

\* what get_cached_codec leaves in the cache for codec_id, given the registry's
\* answer to a lookup
CacheInsert(cache, codec_id, codec) ==
    IF codec # NULL THEN [cache EXCEPT ![codec_id] = codec] ELSE cache

\* the body of get_cached_codec, and the check of its result by the caller
gcc(self) ==
    /\ At(self, "gcc")
    /\ g_codec_cache_mutex' = NoThread
    /\ LET l == [loc[self] EXCEPT !.resolved = TRUE]
           codec_id == l.req.file.codec_id
           hit == g_codec_cache[codec_id] # NULL
           codec == IF hit THEN g_codec_cache[codec_id]
                    ELSE avcodec_find_decoder(codec_id)
       IN /\ resolver_calls' = [resolver_calls EXCEPT ![codec_id] = Bump(@)]
          /\ registry_lookups' = IF hit THEN registry_lookups
                                 ELSE [registry_lookups EXCEPT ![codec_id] = Bump(@)]
          /\ g_codec_cache' = IF hit THEN g_codec_cache
                              ELSE CacheInsert(g_codec_cache, codec_id, codec)
          /\ IF codec = NULL
             THEN /\ SetLoc(self, [CloseInput(l) EXCEPT !.outcome = "NoDecoder"])
                  /\ Goto(self, "gf_ret")
                  /\ g_thumb_mutex' = NoThread
             ELSE /\ SetLoc(self, [l EXCEPT !.codec = codec])
                  /\ Goto(self, "gf_ctx")
                  /\ UNCHANGED g_thumb_mutex
    /\ UNCHANGED <<g_hw_ctx_mutex, hwVars, requests, jniVars>>

\* avcodec_free_context: the context goes, and with it its device reference
FreeContext(l) ==
    LET l1 == Release([l EXCEPT !.codec_ctx = NULL, !.hw_device_ctx = NULL], "decoder")
    IN IF l.hw_device_ctx # NULL THEN Release(l1, "hwref") ELSE l1

\* avcodec_alloc_context3, avcodec_parameters_to_context and the tier's
\* decoder configuration
gf_ctx(self) ==
    /\ At(self, "gf_ctx")
    /\ LET l == loc[self] IN
       \E step \in {"alloc_failed", "params_failed", "ok"} :
          IF step = "alloc_failed"
          THEN Return(self, CloseInput(l), "AllocFailure", NULL)
          ELSE LET l1 == Acquire([l EXCEPT !.codec_ctx = "alloc"], "decoder") IN
               IF step = "params_failed"
               THEN Return(self, CloseInput(FreeContext(l1)), "AllocFailure", NULL)
               ELSE Continue(self, [l1 EXCEPT !.decoder = DecoderConfig(l.quality)],
                             "gf_hw")
    /\ UNCHANGED <<cacheVars, hwVars, requests, jniVars>>

\* if (use_hw_dec)
gf_hw(self) ==
    /\ At(self, "gf_hw")
    /\ Goto(self, IF loc[self].req.use_hw_dec THEN "hw_init_lock" ELSE "gf_codec_open")
    /\ UNCHANGED <<loc, lockVars, cacheVars, hwVars, requests, jniVars>>

\* ------------------------------------------------- init_hw_device_context
\* std::lock_guard<std::mutex> lock(g_hw_ctx_mutex)
hw_init_lock(self) ==
    /\ At(self, "hw_init_lock")
    /\ MutexFree(g_hw_ctx_mutex)
    /\ g_hw_ctx_mutex' = self
    /\ Goto(self, "hw_init")
    /\ UNCHANGED <<loc, g_thumb_mutex, g_codec_cache_mutex, cacheVars, hwVars, requests, jniVars>>

\* a cache of the successful probe only
HwCachedIfAvailable(initialized) == initialized /\ g_hw_ctx_available

\* whether init_hw_device_context answers from the cached result
HwCached(initialized) == initialized

\* the device buffers no one refers to
FreshDevices ==
    {d \in DevIds : dev_refcount[d] = 0 /\ \A t \in Threads : loc[t].hw_device_ctx # d}

\* av_hwdevice_ctx_create hands out the first of them
NewDevice == IF "dev1" \in FreshDevices THEN "dev1" ELSE "dev2"

\* no decoding without the hardware
AfterHwInitFatal(available) == IF available THEN "hw_ref_lock" ELSE "gf_cleanup"

\* if (init_hw_device_context()) ... else: logged, software decode
AfterHwInit(available) == IF available THEN "hw_ref_lock" ELSE "gf_codec_open"

\* the body of init_hw_device_context
hw_init(self) ==
    /\ At(self, "hw_init")
    /\ g_hw_ctx_mutex' = NoThread
    /\ hw_acquires' = Bump(hw_acquires)
    /\ LET l == [loc[self] EXCEPT !.hw_asked = TRUE] IN
       IF HwCached(g_hw_ctx_initialized)
       THEN /\ SetLoc(self, [l EXCEPT !.hw_ok = g_hw_ctx_available])
            /\ Goto(self, AfterHwInit(g_hw_ctx_available))
            /\ UNCHANGED <<g_hw_device_ctx, g_hw_ctx_initialized, g_hw_ctx_available,
                           dev_refcount, hw_probes>>
       ELSE /\ g_hw_ctx_initialized' = TRUE
            /\ hw_probes' = Bump(hw_probes)
            /\ \E probe \in {"no_type", "create_failed", "created"} :
                  IF probe = "created"
                  THEN \E d \in {NewDevice} \cap FreshDevices :
                          /\ g_hw_device_ctx' = d
                          /\ dev_refcount' = [dev_refcount EXCEPT ![d] = 1]
                          /\ g_hw_ctx_available' = TRUE
                          /\ SetLoc(self, [l EXCEPT !.hw_ok = TRUE])
                          /\ Goto(self, AfterHwInit(TRUE))
                  ELSE /\ g_hw_ctx_available' = FALSE
                       /\ SetLoc(self, [l EXCEPT !.hw_ok = FALSE])
                       /\ Goto(self, AfterHwInit(FALSE))
                       /\ UNCHANGED <<g_hw_device_ctx, dev_refcount>>
    /\ UNCHANGED <<g_thumb_mutex, g_codec_cache_mutex, cacheVars, requests, jniVars>>

\* std::lock_guard<std::mutex> lock(g_hw_ctx_mutex), in grabThumbnailFast
hw_ref_lock(self) ==
    /\ At(self, "hw_ref_lock")
    /\ MutexFree(g_hw_ctx_mutex)
    /\ g_hw_ctx_mutex' = self
    /\ Goto(self, "hw_ref")
    /\ UNCHANGED <<loc, g_thumb_mutex, g_codec_cache_mutex, cacheVars, hwVars, requests, jniVars>>

\* a copy of the handle that takes no reference
TakeRefNoCount(rc, d) == rc

\* the reference count after the decoder has taken its device reference
TakeRef(rc, d) == av_buffer_ref(rc, d)

\* a reference taken on the word of init_hw_device_context alone
HandleUnchecked(handle) == TRUE

\* if (g_hw_device_ctx), under g_hw_ctx_mutex
HandleSet(handle) == handle # NULL

\* codec_ctx->hw_device_ctx = av_buffer_ref(g_hw_device_ctx), if the handle is set
hw_ref(self) ==
    /\ At(self, "hw_ref")
    /\ g_hw_ctx_mutex' = NoThread
    /\ IF HandleSet(g_hw_device_ctx)
       THEN /\ dev_refcount' = TakeRef(dev_refcount, g_hw_device_ctx)
            /\ SetLoc(self, Acquire([loc[self] EXCEPT !.hw_device_ctx = g_hw_device_ctx],
                                    "hwref"))
       ELSE UNCHANGED <<dev_refcount, loc>>
    /\ Goto(self, "gf_codec_open")
    /\ UNCHANGED <<g_thumb_mutex, g_codec_cache_mutex, cacheVars, requests, jniVars,
                   g_hw_device_ctx, g_hw_ctx_initialized, g_hw_ctx_available, hw_probes,
                   hw_acquires>>

\* ------------------------------------------- grabThumbnailFast, continued
\* avcodec_open2
gf_codec_open(self) ==
    /\ At(self, "gf_codec_open")
    /\ LET l == loc[self] IN
       \E ok \in BOOLEAN :
          IF ~ok
          THEN /\ Return(self, CloseInput(FreeContext(l)), "CodecOpenFailure", NULL)
               /\ dev_refcount' = av_buffer_unref(dev_refcount, l.hw_device_ctx)
          ELSE /\ Continue(self, [l EXCEPT !.codec_ctx = "open"], "gf_seek")
               /\ UNCHANGED dev_refcount
    /\ UNCHANGED <<cacheVars, requests, jniVars, g_hw_device_ctx, g_hw_ctx_initialized,
                   g_hw_ctx_available, hw_probes, hw_acquires>>

\* a failed seek that ends the call
AfterSeekFatal(ok) == IF ok THEN "gf_alloc" ELSE "gf_cleanup"

\* if (av_seek_frame(...) < 0): logged, the call goes on
AfterSeek(ok) == "gf_alloc"

\* a flush only after a seek that succeeded
FlushedIfSought(ok) == ok

\* avcodec_flush_buffers(codec_ctx), whatever av_seek_frame returned
Flushed(ok) == TRUE

\* the seek to the target and the flush of the decoder that follows it
gf_seek(self) ==
    /\ At(self, "gf_seek")
    /\ LET l == loc[self] IN
       IF SeekGuard(l.req.position)
       THEN \E ok \in SeekResults(l.req.file), skipped \in 0..l.remaining :
               \* a seek that fails leaves the demuxer where it was
               /\ ~ok => skipped = 0
               /\ Continue(self, [l EXCEPT !.seek_attempted = TRUE,
                                           !.seek_ok = ok,
                                           !.seek_flags = SeekFlags(l.quality, l.req.position),
                                           !.remaining = @ - skipped,
                                           !.flushed = Flushed(ok)],
                           AfterSeek(ok))
       ELSE Continue(self, l, "gf_alloc")
    /\ UNCHANGED <<cacheVars, hwVars, requests, jniVars>>

\* av_packet_alloc and av_frame_alloc
gf_alloc(self) ==
    /\ At(self, "gf_alloc")
    /\ LET l == loc[self] IN
       \E step \in {"no_packet", "no_frame", "ok"} :
          IF step = "no_packet"
          THEN Return(self, CloseInput(FreeContext(l)), "AllocFailure", NULL)
          ELSE LET l1 == Acquire([l EXCEPT !.packet = "alloc"], "packet") IN
               IF step = "no_frame"
               THEN Return(self,
                           CloseInput(FreeContext(
                               Release([l1 EXCEPT !.packet = NULL], "packet"))),
                           "AllocFailure", NULL)
               ELSE Continue(self, Acquire([l1 EXCEPT !.frame = "alloc"], "frame"),
                             "gf_read")
    /\ dev_refcount' = IF pc'[self] = "gf_ret"
                       THEN av_buffer_unref(dev_refcount, loc[self].hw_device_ctx)
                       ELSE dev_refcount
    /\ UNCHANGED <<cacheVars, requests, jniVars, g_hw_device_ctx, g_hw_ctx_initialized,
                   g_hw_ctx_available, hw_probes, hw_acquires>>

\* a rejected packet ends the loop
AfterPacketStrict(video, sent) ==
    IF video /\ ~sent THEN "gf_cleanup"
    ELSE IF video THEN "gf_receive" ELSE "gf_read"

\* if (packet->stream_index == video_stream_idx)
\*     if (avcodec_send_packet(codec_ctx, packet) >= 0): the inner loop;
\* in every other case av_packet_unref and the next packet
AfterPacket(video, sent) == IF video /\ sent THEN "gf_receive" ELSE "gf_read"

\* one evaluation of the outer loop's condition, and the submission of the
\* packet read: av_read_frame, the frame limit, avcodec_send_packet
gf_read(self) ==
    /\ At(self, "gf_read")
    /\ LET l == loc[self]
           more == l.req.file.endless \/ l.remaining > 0
       IN \E delivered \in {more, FALSE}, video \in BOOLEAN,
             sent \in SendResults(l.req.file) :
             IF ~delivered
             THEN Continue(self, l, "gf_cleanup")
             ELSE LET l1 == [l EXCEPT !.packet_ref = TRUE,
                                      !.remaining = IF l.req.file.endless THEN @ ELSE @ - 1]
                  IN IF ~LoopGuard(l1.frames_decoded)
                     THEN Continue(self, l1, "gf_cleanup")
                     ELSE LET next == AfterPacket(video, sent)
                              l2 == [l1 EXCEPT !.rejected = @ \/ (video /\ ~sent)]
                          IN IF next = "gf_receive"
                             THEN Continue(self, [l2 EXCEPT !.got = 0], next)
                             \* no frame was found: av_packet_unref, next packet
                             ELSE Continue(self, [l2 EXCEPT !.packet_ref = FALSE], next)
    /\ UNCHANGED <<cacheVars, hwVars, requests, jniVars>>

Max(a, b) == IF a >= b THEN a ELSE b

\* the call's state after the frame just received was accepted and handed to
\* frame_to_bitmap, which returned a Bitmap or null
Converted(l, converted) ==
    IF converted.ref # NULL
    THEN [l EXCEPT !.bitmap = converted.ref, !.pixels = converted, !.frame_found = TRUE]
    ELSE [l EXCEPT !.conv_failed = TRUE]

\* where the outer loop goes after the inner loop was left on an accepted frame
AfterAccept(l) == IF l.frame_found THEN "gf_cleanup" ELSE "gf_read"

\* one turn of the inner loop: avcodec_receive_frame and the two windows
gf_receive(self) ==
    /\ At(self, "gf_receive")
    /\ LET l == loc[self] IN
       \/ \* the decoder has no further frame for now: av_packet_unref, next packet
          Continue(self, [l EXCEPT !.packet_ref = FALSE], "gf_read")
       \/ /\ l.got < MaxFramesPerPacket
          /\ \E f \in Frames(l.req.file) :
                LET frame_time == FrameTime(f, l.req.file.time_base)
                    l1 == [l EXCEPT !.frames_decoded = @ + 1, !.got = @ + 1,
                                    !.frame_ref = TRUE, !.too_early = FALSE,
                                    !.tolerances = <<SkipTolerance(l.quality),
                                                     MatchTolerance(l.quality)>>,
                                    !.prev_max = Max(@, frame_time)]
                IN IF SkipFrame(l.req.position, frame_time, l.quality)
                   THEN Continue(self, [l1 EXCEPT !.frame_ref = FALSE,
                                                  !.too_early = TRUE],
                                 "gf_receive")
                   ELSE IF AcceptFrame(l.req.position, frame_time, l.quality)
                   THEN \E size \in l.req.file.sizes, fate \in ConversionFates :
                           LET converted == frame_to_bitmap(size, l.req.dimension,
                                                            l.quality, fate)
                               l2 == Converted([l1 EXCEPT !.accepts = Bump(@),
                                                          !.frame_size = size,
                                                          !.sel_time = frame_time,
                                                          !.sel_prev_max = l.prev_max],
                                               converted)
                           IN Continue(self, [l2 EXCEPT !.packet_ref = FALSE],
                                       AfterAccept(l2))
                   ELSE Continue(self, [l1 EXCEPT !.frame_ref = FALSE], "gf_receive")
    /\ UNCHANGED <<cacheVars, hwVars, requests, jniVars>>

\* a cleanup that forgets the packet
CleanupKeepsPacket(l) ==
    CloseInput(FreeContext(
        Release([l EXCEPT !.frame = NULL, !.frame_ref = FALSE], "frame")))

\* av_frame_free, av_packet_free, avcodec_free_context, avformat_close_input
Cleanup(l) ==
    CloseInput(FreeContext(
        Release([Release([l EXCEPT !.frame = NULL, !.frame_ref = FALSE], "frame")
                   EXCEPT !.packet = NULL, !.packet_ref = FALSE], "packet")))

\* the cleanup after the loop and the result of the call
gf_cleanup(self) ==
    /\ At(self, "gf_cleanup")
    /\ LET l == loc[self] IN
       /\ IF ~l.frame_found
          THEN Return(self, Cleanup(l), "NoFrameFound", NULL)
          ELSE Return(self, Cleanup(l), "Success", l.bitmap)
       /\ dev_refcount' = av_buffer_unref(dev_refcount, l.hw_device_ctx)
    /\ UNCHANGED <<cacheVars, requests, jniVars, g_hw_device_ctx, g_hw_ctx_initialized,
                   g_hw_ctx_available, hw_probes, hw_acquires>>

\* the caller has the result; its thread is free for another call
gf_finish(self) ==
    /\ pc[self] = "gf_ret"
    /\ SetLoc(self, LocInit)
    /\ Goto(self, "idle")
    /\ UNCHANGED <<lockVars, cacheVars, hwVars, requests, jniVars>>

\* ------------------------------------------------------ clearThumbnailCache
CallClearThumbnailCache(self) ==
    /\ At(self, "idle")
    /\ Goto(self, "cc_codec_lock")
    /\ UNCHANGED <<loc, lockVars, cacheVars, hwVars, requests, jniVars>>

\* a critical section that does not end at its closing brace
ScopeKept(self) == self

\* the owner of a mutex once the lock_guard's scope has ended
ScopeEnd(self) == NoThread

cc_codec_lock(self) ==
    /\ At(self, "cc_codec_lock")
    /\ MutexFree(g_codec_cache_mutex)
    /\ g_codec_cache_mutex' = self
    /\ Goto(self, "cc_codec")
    /\ UNCHANGED <<loc, g_thumb_mutex, g_hw_ctx_mutex, cacheVars, hwVars, requests, jniVars>>

\* g_codec_cache.clear()
cc_codec(self) ==
    /\ At(self, "cc_codec")
    /\ g_codec_cache_mutex' = ScopeEnd(self)
    /\ g_codec_cache' = [c \in CodecIds |-> NULL]
    /\ resolver_calls' = [c \in CodecIds |-> 0]
    /\ registry_lookups' = [c \in CodecIds |-> 0]
    /\ Goto(self, "cc_hw_lock")
    /\ UNCHANGED <<loc, g_thumb_mutex, g_hw_ctx_mutex, hwVars, requests, jniVars>>

cc_hw_lock(self) ==
    /\ At(self, "cc_hw_lock")
    /\ MutexFree(g_hw_ctx_mutex)
    /\ g_hw_ctx_mutex' = self
    /\ Goto(self, "cc_hw")
    /\ UNCHANGED <<loc, g_thumb_mutex, g_codec_cache_mutex, cacheVars, hwVars, requests, jniVars>>

\* a clear that leaves the probe marked as done
ClearedStateKeepsFlag == [initialized |-> TRUE, available |-> FALSE]

\* the tri-state clearThumbnailCache leaves behind
ClearedState == [initialized |-> FALSE, available |-> FALSE]

\* the release of the cached device reference and the reset of the tri-state
cc_hw(self) ==
    /\ At(self, "cc_hw")
    /\ g_hw_ctx_mutex' = NoThread
    /\ dev_refcount' = av_buffer_unref(dev_refcount, g_hw_device_ctx)
    /\ g_hw_device_ctx' = NULL
    /\ g_hw_ctx_initialized' = ClearedState.initialized
    /\ g_hw_ctx_available' = ClearedState.available
    /\ hw_probes' = 0
    /\ hw_acquires' = 0
    /\ Goto(self, "cc_ret")
    /\ UNCHANGED <<loc, g_thumb_mutex, g_codec_cache_mutex, cacheVars, requests, jniVars>>

cc_finish(self) ==
    /\ pc[self] = "cc_ret"
    /\ Goto(self, "idle")
    /\ UNCHANGED <<loc, lockVars, cacheVars, hwVars, requests, jniVars>>

\* ----------------------------------------------------- setThumbnailJavaVM
\* the application contexts a registration can pass
AppContexts == {NULL, "appctx"}

CallSetThumbnailJavaVM(self) ==
    /\ At(self, "idle")
    /\ Goto(self, "sv_lock")
    /\ UNCHANGED <<loc, lockVars, cacheVars, hwVars, requests, jniVars>>

\* std::lock_guard<std::mutex> lock(g_thumb_mutex)
sv_lock(self) ==
    /\ At(self, "sv_lock")
    /\ MutexFree(g_thumb_mutex)
    /\ g_thumb_mutex' = self
    /\ Goto(self, "sv")
    /\ UNCHANGED <<loc, g_codec_cache_mutex, g_hw_ctx_mutex, cacheVars, hwVars, requests,
                   jniVars>>

\* the body of setThumbnailJavaVM: the old global reference goes, the VM is
\* fetched, and a new global reference is made of a non-null context
sv(self) ==
    /\ At(self, "sv")
    /\ g_thumb_mutex' = NoThread
    /\ \E appctx \in AppContexts, vm_ok \in BOOLEAN, ref \in AppContexts :
          /\ g_thumb_vm' = IF vm_ok THEN "vm" ELSE g_thumb_vm
          /\ g_thumb_appctx' = IF appctx # NULL THEN ref ELSE NULL
    /\ Goto(self, "idle")
    /\ UNCHANGED <<loc, g_codec_cache_mutex, g_hw_ctx_mutex, cacheVars, hwVars, requests>>

\* ---------------------------------------------- cleanup_thumbnail_resources
\* the cleanup at the unload of the library has begun
Unloading ==
    \E t \in Threads :
       pc[t] \in {"cu_codec_lock", "cu_codec", "cu_hw_lock", "cu_hw", "cu_thumb_lock",
                  "cu_thumb", "unloaded"}

\* the destructor runs once, on the thread that unloads the library
CallCleanup(self) ==
    /\ At(self, "idle")
    /\ ~Unloading
    /\ Goto(self, "cu_codec_lock")
    /\ UNCHANGED <<loc, lockVars, cacheVars, hwVars, requests, jniVars>>

cu_codec_lock(self) ==
    /\ At(self, "cu_codec_lock")
    /\ MutexFree(g_codec_cache_mutex)
    /\ g_codec_cache_mutex' = self
    /\ Goto(self, "cu_codec")
    /\ UNCHANGED <<loc, g_thumb_mutex, g_hw_ctx_mutex, cacheVars, hwVars, requests,
                   jniVars>>

\* g_codec_cache.clear()
cu_codec(self) ==
    /\ At(self, "cu_codec")
    /\ g_codec_cache_mutex' = ScopeEnd(self)
    /\ g_codec_cache' = [c \in CodecIds |-> NULL]
    /\ resolver_calls' = [c \in CodecIds |-> 0]
    /\ registry_lookups' = [c \in CodecIds |-> 0]
    /\ Goto(self, "cu_hw_lock")
    /\ UNCHANGED <<loc, g_thumb_mutex, g_hw_ctx_mutex, hwVars, requests, jniVars>>

cu_hw_lock(self) ==
    /\ At(self, "cu_hw_lock")
    /\ MutexFree(g_hw_ctx_mutex)
    /\ g_hw_ctx_mutex' = self
    /\ Goto(self, "cu_hw")
    /\ UNCHANGED <<loc, g_thumb_mutex, g_codec_cache_mutex, cacheVars, hwVars, requests,
                   jniVars>>

\* a cleanup that also forgets the result of the probe
UnloadedStateReset(initialized, available) == ClearedState

\* the tri-state the unload cleanup leaves behind: it writes neither flag
UnloadedState(initialized, available) ==
    [initialized |-> initialized, available |-> available]

\* the release of the cached device reference; the tri-state stays
cu_hw(self) ==
    /\ At(self, "cu_hw")
    /\ g_hw_ctx_mutex' = NoThread
    /\ dev_refcount' = av_buffer_unref(dev_refcount, g_hw_device_ctx)
    /\ g_hw_device_ctx' = NULL
    /\ LET left == UnloadedState(g_hw_ctx_initialized, g_hw_ctx_available)
       IN /\ g_hw_ctx_initialized' = left.initialized
          /\ g_hw_ctx_available' = left.available
    /\ Goto(self, "cu_thumb_lock")
    /\ UNCHANGED <<loc, g_thumb_mutex, g_codec_cache_mutex, cacheVars, hw_probes,
                   hw_acquires, requests, jniVars>>

cu_thumb_lock(self) ==
    /\ At(self, "cu_thumb_lock")
    /\ MutexFree(g_thumb_mutex)
    /\ g_thumb_mutex' = self
    /\ Goto(self, "cu_thumb")
    /\ UNCHANGED <<loc, g_codec_cache_mutex, g_hw_ctx_mutex, cacheVars, hwVars, requests,
                   jniVars>>

\* the release of the global reference, if the VM still gives an environment
cu_thumb(self) ==
    /\ At(self, "cu_thumb")
    /\ g_thumb_mutex' = NoThread
    /\ \E env_ok \in BOOLEAN :
          g_thumb_appctx' = IF g_thumb_appctx # NULL /\ g_thumb_vm # NULL /\ env_ok
                            THEN NULL ELSE g_thumb_appctx
    /\ Goto(self, "unloaded")
    /\ UNCHANGED <<loc, g_codec_cache_mutex, g_hw_ctx_mutex, cacheVars, hwVars, requests,
                   g_thumb_vm>>

\* ------------------------------------------- frame_to_bitmap on its own
\* frame sizes and dimensions for the conversion taken alone
ScaleFrames ==
    {<<1, 1>>, <<2, 1>>, <<4, 3>>, <<3, 4>>, <<16, 9>>, <<9, 16>>, <<23, 23>>, <<23, 7>>,
     <<22, 13>>, <<100, 1>>, <<1, 100>>, <<37, 5>>, <<854, 480>>}

ScaleDimensions == {1, 2, 3, 7, 13, 64, 256, MAX_DIMENSION}

\* a call of frame_to_bitmap with a frame of some size
CallFrameToBitmap(self) ==
    /\ pc[self] = "idle"
    /\ \E size \in ScaleFrames, d \in ScaleDimensions, q \in LoopTiers,
          fate \in ConversionFates :
          LET converted == frame_to_bitmap(size, d, q, fate)
          IN SetLoc(self, [LocInit EXCEPT !.req.dimension = d, !.quality = q,
                                          !.frame_size = size, !.pixels = converted,
                                          !.result = converted.ref])
    /\ Goto(self, "fb_ret")
    /\ UNCHANGED <<lockVars, cacheVars, hwVars, requests, jniVars>>

fb_finish(self) ==
    /\ pc[self] = "fb_ret"
    /\ SetLoc(self, LocInit)
    /\ Goto(self, "idle")
    /\ UNCHANGED <<lockVars, cacheVars, hwVars, requests, jniVars>>

\* ----------------------------------------------- frame_time on its own
\* timestamps and time bases for the computation of frame_time taken alone
TimePts == {AV_NOPTS_VALUE, -12, 0, 3, 7}
TimeBest == {AV_NOPTS_VALUE, 0, 18}
TimeBases == {<<1, 2>>, <<1, 4>>, <<1, 1>>}

\* a file with one frame
OneFrame(f, base) ==
    MediaFile(TRUE, <<"video">>, "h264", base[1], base[2], FALSE, 1, {f.pts},
              {f.best_effort_timestamp}, Landscape)

\* the computation of frame_time for one frame and the two window tests on it
CallFrameTime(self) ==
    /\ pc[self] = "idle"
    /\ \E f \in [pts : TimePts, best_effort_timestamp : TimeBest], base \in TimeBases,
          p \in {0, 8}, q \in LoopTiers :
          LET file == OneFrame(f, base)
              frame_time == FrameTime(f, file.time_base)
              skip == SkipFrame(p, frame_time, q)
          IN SetLoc(self, [LocInit EXCEPT
                             !.req = Request(p, 64, FALSE, q, TRUE, file),
                             !.quality = q,
                             !.frames_decoded = 1,
                             !.prev_max = frame_time,
                             !.too_early = skip,
                             !.sel_time = IF ~skip /\ AcceptFrame(p, frame_time, q)
                                          THEN frame_time ELSE Earliest,
                             !.accepts = IF ~skip /\ AcceptFrame(p, frame_time, q)
                                         THEN 1 ELSE 0])
    /\ Goto(self, "ft_ret")
    /\ UNCHANGED <<lockVars, cacheVars, hwVars, requests, jniVars>>

ft_finish(self) ==
    /\ pc[self] = "ft_ret"
    /\ SetLoc(self, LocInit)
    /\ Goto(self, "idle")
    /\ UNCHANGED <<lockVars, cacheVars, hwVars, requests, jniVars>>

\* ------------------------------------------- the frame selection on its own
\* frame times in ticks, targets, and the longest frame sequence
TrialTimes == {0, 1, 2, 4, 5, 6, 7, 9}
TrialPositions == {0, 1, 8, 5 * 2}
MaxTrial == 3

TrialSequences == UNION {[1..n -> TrialTimes] : n \in 0..MaxTrial}

\* the frame the inner loop hands to frame_to_bitmap among the frames from
\* the i-th on, 0 if none: a frame in the skip window is passed over when
\* the skip test is there, then the accept window decides
RECURSIVE SelectFrame(_, _, _, _, _)
SelectFrame(times, i, position, quality, skipping) ==
    IF i > Len(times) THEN 0
    ELSE IF skipping /\ SkipFrame(position, times[i], quality)
    THEN SelectFrame(times, i + 1, position, quality, skipping)
    ELSE IF AcceptFrame(position, times[i], quality) THEN i
    ELSE SelectFrame(times, i + 1, position, quality, skipping)

\* the selection run on a frame sequence, with the skip test and without it
CallSelectFrame(self) ==
    /\ pc[self] = "idle"
    /\ \E times \in TrialSequences, p \in TrialPositions, q \in LoopTiers :
          SetLoc(self, [LocInit EXCEPT
                          !.req.position = p, !.quality = q,
                          !.trial = [times |-> times,
                                     with |-> SelectFrame(times, 1, p, q, TRUE),
                                     without |-> SelectFrame(times, 1, p, q, FALSE)]])
    /\ Goto(self, "sl_ret")
    /\ UNCHANGED <<lockVars, cacheVars, hwVars, requests, jniVars>>

sl_finish(self) ==
    /\ pc[self] = "sl_ret"
    /\ SetLoc(self, LocInit)
    /\ Goto(self, "idle")
    /\ UNCHANGED <<lockVars, cacheVars, hwVars, requests, jniVars>>

\* ------------------------------------- thumbnail_fast.cpp and thumbnail.cpp
\* thumbnail_fast.cpp: if (position > 0.0 && position < INT64_MAX / AV_TIME_BASE)
FastSeekGuard(position) == position > 0 /\ position < SeekLimit

\* a seek that always goes back to a keyframe
FastSeekFlagsBackward(position) == "AVSEEK_FLAG_BACKWARD"

\* thumbnail_fast.cpp: BACKWARD, ANY if (position < 5.0); 5.0 s are 10 ticks
FastSeekFlags(position) ==
    IF position < 5 * 2 THEN "AVSEEK_FLAG_ANY" ELSE "AVSEEK_FLAG_BACKWARD"

\* thumbnail_fast.cpp: if (position > 0.0 && frame_time < position - 1.5)
FastSkipFrame(position, frame_time) == position > 0 /\ frame_time < position - 3

\* thumbnail_fast.cpp: if (position == 0.0 || frame_time >= position - 1.0)
FastAcceptFrame(position, frame_time) == position = 0 \/ frame_time >= position - 2

\* the loop of thumbnail_fast.cpp over the frames from the i-th on; fails are
\* the frames frame_to_bitmap makes no Bitmap of
RECURSIVE FastRun(_, _, _, _, _)
FastRun(times, i, position, fails, run) ==
    IF i > Len(times) THEN run
    ELSE IF FastSkipFrame(position, times[i])
    THEN FastRun(times, i + 1, position, fails, [run EXCEPT !.skipped = @ \cup {i}])
    ELSE IF FastAcceptFrame(position, times[i])
    THEN IF i \in fails
         THEN FastRun(times, i + 1, position, fails, [run EXCEPT !.offered = @ \cup {i}])
         ELSE [run EXCEPT !.offered = @ \cup {i}, !.accepted = i]
    ELSE FastRun(times, i + 1, position, fails, run)

\* the loop of thumbnail.cpp, likewise
RECURSIVE TieredRun(_, _, _, _, _, _)
TieredRun(times, i, position, quality, fails, run) ==
    IF i > Len(times) THEN run
    ELSE IF SkipFrame(position, times[i], quality)
    THEN TieredRun(times, i + 1, position, quality, fails,
                   [run EXCEPT !.skipped = @ \cup {i}])
    ELSE IF AcceptFrame(position, times[i], quality)
    THEN IF i \in fails
         THEN TieredRun(times, i + 1, position, quality, fails,
                        [run EXCEPT !.offered = @ \cup {i}])
         ELSE [run EXCEPT !.offered = @ \cup {i}, !.accepted = i]
    ELSE TieredRun(times, i + 1, position, quality, fails, run)

\* if (!frame_found) return NULL
RunOutcome(run) == IF run.accepted # 0 THEN "Success" ELSE "NoFrameFound"

FastDecisions(times, position, fails) ==
    LET run == FastRun(times, 1, position, fails, NoRun)
    IN [seek |-> FastSeekGuard(position),
        flag |-> IF FastSeekGuard(position) THEN FastSeekFlags(position) ELSE NULL,
        run |-> run, outcome |-> RunOutcome(run)]

TieredDecisions(times, position, quality, fails) ==
    LET run == TieredRun(times, 1, position, quality, fails, NoRun)
    IN [seek |-> SeekGuard(position),
        flag |-> IF SeekGuard(position) THEN SeekFlags(quality, position) ELSE NULL,
        run |-> run, outcome |-> RunOutcome(run)]

\* the targets of the comparison: the selection's, those around 5 s, and
\* those around the seek limit
ComparePositions == TrialPositions \cup {9, 11, SeekLimit - 1, SeekLimit}

\* the frames whose conversion fails
ConversionFailures == {{}, {1}, {2}, {1, 2}}

\* both extractions on the same file, target and conversion results, the
\* tiered one in the tier Normal
CallBothExtractions(self) ==
    /\ pc[self] = "idle"
    /\ \E times \in TrialSequences, p \in ComparePositions, fails \in ConversionFailures :
          SetLoc(self, [LocInit EXCEPT
                          !.req.position = p, !.quality = QUALITY_NORMAL,
                          !.trial.times = times,
                          !.tiered = TieredDecisions(times, p, QUALITY_NORMAL, fails),
                          !.single = FastDecisions(times, p, fails)])
    /\ Goto(self, "cb_ret")
    /\ UNCHANGED <<lockVars, cacheVars, hwVars, requests, jniVars>>

cb_finish(self) ==
    /\ pc[self] = "cb_ret"
    /\ SetLoc(self, LocInit)
    /\ Goto(self, "idle")
    /\ UNCHANGED <<lockVars, cacheVars, hwVars, requests, jniVars>>

\* ----------------------------------------------- the seek target on its own
\* The arithmetic of the seek target is in 64-bit integers, beyond those of
\* the model checker. It is modelled exactly on the targets that are whole
\* multiples of 10^6 seconds: such a target is T * 10^6 s, its timestamp is
\* T * 10^12 microseconds, and a multiple x * 10^12 is within the 64-bit
\* range exactly if x <= INT64_MAX_UNITS, the whole part of INT64_MAX / 10^12.
INT64_MAX_UNITS == 9223372

\* INT64_MAX / AV_TIME_BASE = 9223372036854 seconds: T * 10^6 is below it
\* exactly if T <= INT64_MAX_UNITS
BigSeekGuard(T) == T > 0 /\ T <= INT64_MAX_UNITS

\* targets in units of 10^6 seconds: small ones, those around the first
\* overflow for each denominator, and those around the guard
BigPositions ==
    {0, 1, 2, 102, 103, 9223, 9224, 184467, 368934, 368935, 4611686, 4611687,
     INT64_MAX_UNITS, INT64_MAX_UNITS + 1}

\* time bases <<num, den>> of a stream
BigTimeBases ==
    {<<1, 1>>, <<1, 2>>, <<1, 24>>, <<1, 25>>, <<2, 25>>, <<1, 30>>, <<1, 50>>,
     <<1, 60>>, <<1, 1000>>, <<1, 12800>>, <<1, 90000>>}

\* the pairs whose product the integers of the model checker hold
Representable(T, base) == T <= (1000 * 1000 * 1000) \div base[2]

\* 2^64 in the units of the model, to the nearest unit
INT64_SPAN_UNITS == 18446744

\* a product reduced into the signed 64-bit range, to the nearest unit
Wrapped(product) ==
    product - ((product + INT64_MAX_UNITS) \div INT64_SPAN_UNITS) * INT64_SPAN_UNITS

\* what a signed 64-bit product that left the range can come to: undefined
\* behaviour, which the build may turn into the wrapped value or into the
\* value of a wider multiplication
OverflowResults(product) == {Wrapped(product), product}

\* timestamp * den / num / AV_TIME_BASE for the timestamp T * 10^12: the
\* targets it can come to, in units of 5 * 10^5 time-base ticks
SeekTargets(T, base) ==
    LET product == T * base[2]
        products == IF product > INT64_MAX_UNITS
                    THEN OverflowResults(product) ELSE {product}
    IN {(p * 2) \div base[1] : p \in products}

\* the computation of the seek target for one target and time base
CallSeekTarget(self) ==
    /\ pc[self] = "idle"
    /\ \E T \in BigPositions, base \in BigTimeBases :
          /\ Representable(T, base)
          /\ IF BigSeekGuard(T)
             THEN \E target \in SeekTargets(T, base) :
                     SetLoc(self, [LocInit EXCEPT
                                     !.req.position = T,
                                     !.seek_attempted = TRUE,
                                     !.seek_target =
                                        [num |-> base[1], den |-> base[2],
                                         overflow |-> T * base[2] > INT64_MAX_UNITS,
                                         target |-> target]])
             ELSE SetLoc(self, [LocInit EXCEPT
                                  !.req.position = T,
                                  !.seek_target.num = base[1],
                                  !.seek_target.den = base[2]])
    /\ Goto(self, "st_ret")
    /\ UNCHANGED <<lockVars, cacheVars, hwVars, requests, jniVars>>

st_finish(self) ==
    /\ pc[self] = "st_ret"
    /\ SetLoc(self, LocInit)
    /\ Goto(self, "idle")
    /\ UNCHANGED <<lockVars, cacheVars, hwVars, requests, jniVars>>

\* ----------------------------------------------------------- grabThumbnail
\* the order in which the response map lists its keys
KeyOrders ==
    {<<"w", "h", "stride", "format", "data">>,
     <<"data", "format", "stride", "h", "w">>}

\* the keys of a response whose value is not of the type the parser expects
WrongTypes == {{}, {"w"}, {"h"}, {"stride"}, {"format"}, {"data"}, {"h", "data"}}

\* the playback engine's answer to screenshot-raw: whether it is a map, the
\* values of its keys (data: whether the map has the key), the keys' order
\* and the keys with a value of another type
SnapshotResponses ==
    [map : BOOLEAN,
     size : {<<0, 0>>, <<8, 8>>, <<16, 9>>, <<9, 16>>, <<10, 4>>, <<1, 6>>,
             <<1920, 1080>>},
     stride : {0, 64}, format : {"bgr0", "rgb0"}, data : BOOLEAN,
     order : KeyOrders, wrong : WrongTypes]

SnapshotDimensions == {-1, 0, 1, 2, 64, MAX_DIMENSION, 5000}

\* how a snapshot goes: which of its calls fails, if any
SnapshotFates ==
    {"no_mpv", "command_failed", "no_scaler", "no_array", "scale_failed", "no_bitmap",
     "ok"}

\* int w = 0, h = 0, stride = 0; bool format_ok = false; data = NULL
NothingParsed == [w |-> 0, h |-> 0, stride |-> 0, format_ok |-> FALSE, data |-> FALSE]

\* the value the parser stores for a key it accepts
KeyRead(r, key, acc) ==
    CASE key = "w" -> [acc EXCEPT !.w = r.size[1]]
      [] key = "h" -> [acc EXCEPT !.h = r.size[2]]
      [] key = "stride" -> [acc EXCEPT !.stride = r.stride]
      [] key = "format" -> [acc EXCEPT !.format_ok = (r.format = "bgr0")]
      [] OTHER -> [acc EXCEPT !.data = TRUE]

\* a parser that reads every value whatever its type
RECURSIVE ParseKeysUntyped(_, _, _)
ParseKeysUntyped(r, i, acc) ==
    IF i > Len(r.order) THEN acc
    ELSE IF r.order[i] = "data" /\ ~r.data THEN ParseKeysUntyped(r, i + 1, acc)
    ELSE ParseKeysUntyped(r, i + 1, KeyRead(r, r.order[i], acc))

\* the loop over the keys of the map from the i-th on: a value of another
\* type ends it
RECURSIVE ParseKeys(_, _, _)
ParseKeys(r, i, acc) ==
    IF i > Len(r.order) THEN acc
    ELSE IF r.order[i] = "data" /\ ~r.data THEN ParseKeys(r, i + 1, acc)
    ELSE IF r.order[i] \in r.wrong THEN acc
    ELSE ParseKeys(r, i + 1, KeyRead(r, r.order[i], acc))

\* what grabThumbnail has read of the response
ParseResponse(r) == IF r.map THEN ParseKeys(r, 1, NothingParsed) ELSE NothingParsed

\* if (!w || !h || !stride || !format_ok || !data)
ResponseUsable(r) ==
    LET p == ParseResponse(r)
    IN p.w # 0 /\ p.h # 0 /\ p.stride # 0 /\ p.format_ok /\ p.data

\* the calls a snapshot has made
SnapshotCalls(r, dimension, fate) ==
    IF fate \in {"no_mpv", "command_failed"} THEN NoSnapshotCalls
    ELSE IF ~ResponseUsable(r)
    THEN [answered |-> TRUE, freed |-> TRUE, scaler |-> FALSE, array |-> FALSE]
    ELSE [answered |-> TRUE, freed |-> TRUE, scaler |-> TRUE,
          array |-> fate # "no_scaler" /\ dimension >= 1]

\* a region cut from the top left corner
CropFromCorner(w, h) ==
    [left |-> 0, top |-> 0,
     width |-> IF w > h THEN h ELSE w, height |-> IF h > w THEN w ELSE h]

\* the region of a w x h snapshot that is scaled: crop_left, crop_top, new_w
\* and new_h
CropRegion(w, h) ==
    IF w > h THEN [left |-> (w - h) \div 2, top |-> 0, width |-> h, height |-> h]
    ELSE IF h > w THEN [left |-> 0, top |-> (h - w) \div 2, width |-> w, height |-> w]
    ELSE [left |-> 0, top |-> 0, width |-> w, height |-> h]

\* the region grabThumbnail cuts, if it comes to cutting one
SnapshotCrop(r, fate) ==
    IF fate \in {"no_mpv", "command_failed"} \/ ~ResponseUsable(r)
    THEN NoCrop
    ELSE CropRegion(r.size[1], r.size[2])

\* a snapshot scaled like an extracted frame
SnapshotBitmapKeepsAspect(r, dimension, fate) ==
    frame_to_bitmap(r.size, dimension, QUALITY_HQ, fate)

\* the Bitmap grabThumbnail makes of the response, or none: the scaler and
\* Bitmap.createBitmap take no side below 1
SnapshotBitmap(r, dimension, fate) ==
    IF \/ fate \in {"no_mpv", "command_failed", "no_scaler", "no_array", "no_bitmap"}
       \/ ~ResponseUsable(r)
       \/ dimension < 1
    THEN NoPixels
    ELSE [ref |-> BITMAP, width |-> dimension, height |-> dimension,
          sws_algorithm |-> "SWS_BICUBIC", filled |-> fate = "ok"]

\* grabThumbnail: the live snapshot, which takes none of the mutexes
grabThumbnail(self) ==
    /\ pc[self] = "idle"
    /\ \E r \in SnapshotResponses, d \in SnapshotDimensions, fate \in SnapshotFates :
          LET made == SnapshotBitmap(r, d, fate)
          IN SetLoc(self, [LocInit EXCEPT !.req.dimension = d, !.frame_size = r.size,
                                          !.crop = SnapshotCrop(r, fate),
                                          !.response = r,
                                          !.snapshot = SnapshotCalls(r, d, fate),
                                          !.pixels = made, !.result = made.ref])
    /\ Goto(self, "gt_ret")
    /\ UNCHANGED <<lockVars, cacheVars, hwVars, requests, jniVars>>

gt_finish(self) ==
    /\ pc[self] = "gt_ret"
    /\ SetLoc(self, LocInit)
    /\ Goto(self, "idle")
    /\ UNCHANGED <<lockVars, cacheVars, hwVars, requests, jniVars>>

\* --------------------------------------------------------- specifications
\* the steps of a targeted extraction that asks for no hardware decoding
ExtractionStep(self) ==
    \/ CallGrabThumbnailFast(self) \/ gf_lock(self) \/ gf_validate(self)
    \/ gf_open(self) \/ gf_info(self) \/ gf_stream(self)
    \/ gcc_lock(self) \/ gcc(self) \/ gf_ctx(self) \/ gf_hw(self)
    \/ gf_codec_open(self) \/ gf_seek(self) \/ gf_alloc(self)
    \/ gf_read(self) \/ gf_receive(self) \/ gf_cleanup(self)

HwStep(self) ==
    \/ hw_init_lock(self) \/ hw_init(self) \/ hw_ref_lock(self) \/ hw_ref(self)

ClearStep(self) ==
    \/ CallClearThumbnailCache(self) \/ cc_codec_lock(self) \/ cc_codec(self)
    \/ cc_hw_lock(self) \/ cc_hw(self)

Next ==
    \E self \in Threads :
       \/ ExtractionStep(self) \/ HwStep(self) \/ ClearStep(self)
       \/ gf_finish(self) \/ cc_finish(self)

Spec == Init /\ [][Next]_vars

\* the calls of the lifecycle specification
LifecycleRequests ==
    {Request(0, 64, TRUE, QUALITY_NORMAL, TRUE, ShortVideo),
     Request(8, 64, FALSE, QUALITY_NORMAL, TRUE, ShortVideo)}

InitLifecycle == ProgramInit /\ requests = LifecycleRequests

RegisterStep(self) == CallSetThumbnailJavaVM(self) \/ sv_lock(self) \/ sv(self)

UnloadStep(self) ==
    \/ CallCleanup(self) \/ cu_codec_lock(self) \/ cu_codec(self)
    \/ cu_hw_lock(self) \/ cu_hw(self) \/ cu_thumb_lock(self) \/ cu_thumb(self)

\* extractions, cache-clears, registrations and the unload cleanup
NextLifecycle ==
    \E self \in Threads :
       \/ ExtractionStep(self) \/ HwStep(self) \/ ClearStep(self)
       \/ gf_finish(self) \/ cc_finish(self)
       \/ RegisterStep(self) \/ UnloadStep(self)

SpecLifecycle == InitLifecycle /\ [][NextLifecycle]_vars

\* one caller, extractions only
NextLoop == ExtractionStep("t1") \/ gf_finish("t1")

SpecLoop == InitLoop /\ [][NextLoop]_vars

\* one caller on sources that never end
SpecEndless == InitEndless /\ [][NextLoop]_vars

\* one caller, the frame's time only
NextTime == CallFrameTime("t1") \/ ft_finish("t1")

SpecTime == InitLoop /\ [][NextTime]_vars

\* one caller, the frame selection only
NextSelect ==
    \/ CallSelectFrame("t1") \/ sl_finish("t1")
    \/ CallBothExtractions("t1") \/ cb_finish("t1")

SpecSelect == InitLoop /\ [][NextSelect]_vars

\* one caller, the seek target only
NextSeekTarget == CallSeekTarget("t1") \/ st_finish("t1")

SpecSeekTarget == InitLoop /\ [][NextSeekTarget]_vars

\* one caller, conversions only: frame_to_bitmap and the live snapshot
NextConvert ==
    \/ CallFrameToBitmap("t1") \/ fb_finish("t1")
    \/ grabThumbnail("t1") \/ gt_finish("t1")

SpecConvert == InitLoop /\ [][NextConvert]_vars

\* ------------------------------------------------------------- properties
\* the labels of grabThumbnailFast between taking g_thumb_mutex and returning
GrabBody ==
    {"gf_validate", "gf_open", "gf_info", "gf_stream", "gcc_lock", "gcc", "gf_ctx",
     "gf_hw", "hw_init_lock", "hw_init", "hw_ref_lock", "hw_ref", "gf_codec_open",
     "gf_seek", "gf_alloc", "gf_read", "gf_receive", "gf_cleanup"}

\* thread t is inside a call of grabThumbnailFast, or has just returned from it
InCall(t) == pc[t] \in GrabBody \cup {"gf_ret"}

\* the resources thread t holds
Held(t) == {r \in Resources : loc[t].acq[r] > loc[t].rel[r]}

NoHandle(l) ==
    /\ l.format_ctx = NULL /\ l.codec_ctx = NULL /\ l.hw_device_ctx = NULL
    /\ l.packet = NULL /\ l.frame = NULL

\* C1: a call of grabThumbnailFast whose dimension is <= 0 or > 4096, or whose
\* position is negative, goes from the validation straight to the return of
\* null: it opens no container, allocates no decoder, packet or frame, calls
\* neither the codec resolver nor the hardware probe.
C1_RejectedBeforeOpen ==
    \A t \in Threads :
       LET l == loc[t] IN
       (/\ InCall(t)
        /\ (l.req.dimension <= 0 \/ l.req.dimension > 4096 \/ l.req.position < 0))
       => /\ pc[t] \in {"gf_validate", "gf_ret"}
          /\ l.opens = 0 /\ l.acq = NoCount /\ NoHandle(l)
          /\ ~l.resolved /\ ~l.hw_asked
          /\ pc[t] = "gf_ret" => (l.result = NULL /\ l.outcome = "InvalidArgument")

\* reached: a call with a dimension above the limit has returned null
C1_Witness ==
    \E t \in Threads :
       /\ pc[t] = "gf_ret"
       /\ loc[t].req.dimension > 4096
       /\ loc[t].result = NULL

\* C2: for a target t > 0 every frame the loop selects has a time of at least
\* t - match_tolerance (2.0 s fast, 1.0 s normal, 0.5 s high quality, here in
\* half seconds) and is the first such frame of the decoder's output: no frame
\* produced before it reached that time.
C2_FirstInWindowSelected ==
    \A t \in Threads :
       LET l == loc[t]
           tolerance == CASE l.quality = QUALITY_FAST -> 4
                          [] l.quality = QUALITY_HQ -> 1
                          [] OTHER -> 2
           threshold == l.req.position - tolerance
       IN (InCall(t) /\ l.req.position > 0 /\ l.accepts >= 1)
          => /\ l.sel_time >= threshold
             /\ l.sel_prev_max < threshold

\* the frames counted so far, as the saturating counters count them
Counted(n) == IF n < MaxCount THEN n ELSE MaxCount

\* C3: a valid call with the target 0 attempts no seek and no flush, and every
\* frame its decoder produces is accepted, the first one included, whatever its
\* timestamp.
C3_ZeroTargetTakesFirstFrame ==
    \A t \in Threads :
       LET l == loc[t] IN
       (/\ InCall(t) /\ pc[t] # "gf_validate"
        /\ l.outcome \notin {"InvalidArgument", "InvalidPath"}
        /\ l.req.position = 0)
       => /\ ~l.seek_attempted /\ ~l.flushed
          /\ l.accepts = Counted(l.frames_decoded)
          /\ l.frames_decoded >= 1 => l.sel_prev_max = Earliest \/ l.conv_failed

\* reached: a call with the target 0 has returned the bitmap of its first frame,
\* whose time is negative
C3_Witness ==
    \E t \in Threads :
       /\ pc[t] = "gf_ret"
       /\ loc[t].req.position = 0
       /\ loc[t].frames_decoded = 1
       /\ loc[t].sel_time < 0
       /\ loc[t].result = BITMAP

\* C4: a call in which no frame satisfied the accept window ends within the
\* frame limit: it returns null as NoFrameFound with at most MAX_FRAMES frames
\* decoded.
C4_EndsWithinFrameLimit ==
    \A t \in Threads :
       LET l == loc[t] IN
       (InCall(t) /\ l.accepts = 0)
       => /\ l.frames_decoded <= MAX_FRAMES
          /\ (pc[t] = "gf_ret" /\ l.frames_decoded >= 1)
                => (l.outcome = "NoFrameFound" /\ l.result = NULL)

\* C5: since the last cache-clear the hardware probe has run exactly once if
\* init_hw_device_context was called at all, and not otherwise: a second call
\* answers from the cached result, a failed probe included.
C5_ProbeOncePerClear ==
    /\ hw_probes = (IF hw_acquires >= 1 THEN 1 ELSE 0)
    /\ g_hw_ctx_initialized <=> hw_acquires >= 1
    /\ g_hw_ctx_available => g_hw_ctx_initialized
    /\ g_hw_device_ctx # NULL <=> g_hw_ctx_available

\* reached: a failed probe was answered from the cached result by a second call
C5_Witness ==
    /\ hw_acquires = 2
    /\ hw_probes = 1
    /\ ~g_hw_ctx_available

\* C6: since the last cache-clear the registry was asked for a known codec id
\* exactly once if get_cached_codec was called for it at all; the cache holds
\* the registry's descriptor from then on, and every call returned it.
C6_OneLookupPerCodec ==
    /\ \A c \in CodecIds :
          avcodec_find_decoder(c) # NULL
          => /\ registry_lookups[c] = (IF resolver_calls[c] >= 1 THEN 1 ELSE 0)
             /\ resolver_calls[c] >= 1 => g_codec_cache[c] = avcodec_find_decoder(c)
    /\ \A t \in Threads :
          loc[t].codec # NULL
          => loc[t].codec = avcodec_find_decoder(loc[t].req.file.codec_id)

\* reached: two resolver calls for h264, one registry lookup
C6_Witness ==
    /\ resolver_calls["h264"] = 2
    /\ registry_lookups["h264"] = 1

CacheEmpty == \A c \in CodecIds : g_codec_cache[c] = NULL

HwCleared ==
    /\ g_hw_device_ctx = NULL
    /\ ~g_hw_ctx_initialized
    /\ ~g_hw_ctx_available

RefHolders(d) ==
    Cardinality({t \in Threads : loc[t].hw_device_ctx = d})
    + (IF g_hw_device_ctx = d THEN 1 ELSE 0)

\* C8: the reference count of a device is the number of its holders, the
\* cached handle and every decoder context that took its own reference; so a
\* device is freed only when the last of them lets go, and a decoder in flight
\* never holds a freed device, also when a cache-clear ran meanwhile.
C8_DeviceLivesWhileReferenced ==
    \A d \in DevIds : dev_refcount[d] = RefHolders(d)

\* reached: a decoder in its loop holds a device the cache-clear has let go of
C8_Witness ==
    \E t \in Threads :
       /\ pc[t] \in {"gf_read", "gf_receive"}
       /\ loc[t].hw_device_ctx # NULL
       /\ g_hw_device_ctx = NULL
       /\ dev_refcount[loc[t].hw_device_ctx] = 1

\* C9: at most one thread is between the entry and the return of
\* grabThumbnailFast, the validation included, and that thread holds
\* g_thumb_mutex.
C9_OneExtractionAtATime ==
    /\ Cardinality({t \in Threads : pc[t] \in GrabBody}) <= 1
    /\ \A t \in Threads : pc[t] \in GrabBody => g_thumb_mutex = t

\* reached: one thread validates its arguments while the other waits for g_thumb_mutex
C9_Witness ==
    \E t, u \in Threads :
       /\ pc[t] = "gf_validate"
       /\ pc[u] = "gf_lock"

\* C10: a call releases each resource at most once and only after acquiring
\* it, holds exactly the resources its handles name, and has released every
\* resource it acquired when it returns, on every path.
C10_ReleasedExactlyOnce ==
    \A t \in Threads :
       LET l == loc[t] IN
       /\ \A r \in Resources : l.rel[r] <= l.acq[r] /\ l.acq[r] <= 1
       /\ "container" \in Held(t) <=> l.format_ctx # NULL
       /\ "decoder" \in Held(t) <=> l.codec_ctx # NULL
       /\ "hwref" \in Held(t) <=> l.hw_device_ctx # NULL
       /\ "packet" \in Held(t) <=> l.packet # NULL
       /\ "frame" \in Held(t) <=> l.frame # NULL
       /\ pc[t] \in {"gf_ret", "idle"}
             => (Held(t) = {} /\ ~l.packet_ref /\ ~l.frame_ref)

\* reached: a call that acquired all five resources has returned
C10_Witness ==
    \E t \in Threads :
       /\ pc[t] = "gf_ret"
       /\ \A r \in Resources : loc[t].acq[r] = 1 /\ loc[t].rel[r] = 1

\* C11: once the conversion of an accepted frame has failed the call is over:
\* no later frame is accepted or converted in its place, and the result is
\* null.
C11_ConversionFailureEndsCall ==
    \A t \in Threads :
       LET l == loc[t] IN
       (InCall(t) /\ l.conv_failed)
       => /\ l.accepts = 1
          /\ ~l.frame_found
          /\ l.result = NULL

\* C12: a targeted extraction returns an image exactly when a frame was
\* accepted and its conversion completed: the scaler was built, it filled the
\* buffer, and the Bitmap was made of it. Every other call returns null; no
\* image whose buffer the scaler did not fill is returned.
C12_ImageIffConverted ==
    \A t \in Threads :
       LET l == loc[t] IN
       pc[t] = "gf_ret"
       => /\ l.result # NULL <=> (l.accepts >= 1 /\ l.pixels.ref # NULL /\ l.pixels.filled)
          /\ l.result # NULL => l.result = l.pixels.ref

\* C13: for a dimension in 1..4096 and a frame of any size the Bitmap
\* frame_to_bitmap makes has its longer side at most the dimension, its shorter
\* side at least 1, and one of its sides within one pixel of what the other
\* side and the frame's aspect ratio give.
C13_OutputSizeBounded ==
    \A t \in Threads :
       LET l == loc[t]
           w == l.frame_size[1]
           h == l.frame_size[2]
           ow == l.pixels.width
           oh == l.pixels.height
           Dist(a, b) == IF a >= b THEN a - b ELSE b - a
       IN (/\ pc[t] = "fb_ret" /\ l.pixels.ref # NULL
           /\ l.req.dimension \in 1..4096)
          => /\ Max(ow, oh) <= l.req.dimension
             /\ ow >= 1 /\ oh >= 1
             /\ Dist(oh * w, ow * h) <= w \/ Dist(ow * h, oh * w) <= h

\* reached: a frame far wider than high, scaled down to a side of 1
C13_Witness ==
    \E t \in Threads :
       /\ pc[t] = "fb_ret"
       /\ loc[t].frame_size = <<100, 1>>
       /\ loc[t].req.dimension = 13
       /\ loc[t].pixels.width = 13 /\ loc[t].pixels.height = 1

\* C14: a live snapshot that returns a Bitmap returns one of exactly
\* dimension x dimension pixels, whatever the size of the source.
C14_SnapshotIsSquare ==
    \A t \in Threads :
       (pc[t] = "gt_ret" /\ loc[t].result # NULL)
       => /\ loc[t].pixels.width = loc[t].req.dimension
          /\ loc[t].pixels.height = loc[t].req.dimension

\* reached: a 16 x 9 source has given a 64 x 64 Bitmap
C14_Witness ==
    \E t \in Threads :
       /\ pc[t] = "gt_ret"
       /\ loc[t].result # NULL
       /\ loc[t].frame_size = <<16, 9>>
       /\ loc[t].req.dimension = 64
       /\ loc[t].pixels.width = 64 /\ loc[t].pixels.height = 64

\* C15: a call whose tier is outside {0, 1, 2} is not rejected: once past the
\* validation it runs with tier 1, and its analysis bounds, decoder
\* configuration, seek flag, tolerances and scaling filter are those of tier 1.
C15_UnknownTierIsNormal ==
    \A t \in Threads :
       LET l == loc[t] IN
       (InCall(t) /\ l.req.quality \notin 0..2 /\ l.opens >= 1)
       => /\ l.quality = QUALITY_NORMAL
          /\ l.outcome # "InvalidArgument"
          /\ l.analysis \in {NoAnalysis, AnalysisParams(QUALITY_NORMAL)}
          /\ l.decoder \in {NoDecoderConfig, DecoderConfig(QUALITY_NORMAL)}
          /\ l.seek_attempted => l.seek_flags = SeekFlags(QUALITY_NORMAL, l.req.position)
          /\ l.frames_decoded > 0
             => l.tolerances = <<SkipTolerance(QUALITY_NORMAL),
                                 MatchTolerance(QUALITY_NORMAL)>>
          /\ l.pixels.ref # NULL => l.pixels.sws_algorithm = SwsAlgorithm(QUALITY_NORMAL)

\* reached: a call with tier 3 has returned a Bitmap made with every setting
\* of tier 1
C15_Witness ==
    \E t \in Threads :
       LET l == loc[t] IN
       /\ pc[t] = "gf_ret"
       /\ l.req.quality = 3
       /\ l.outcome = "Success"
       /\ l.analysis = AnalysisParams(QUALITY_NORMAL)
       /\ l.decoder = DecoderConfig(QUALITY_NORMAL)
       /\ l.seek_attempted /\ l.seek_flags = SeekFlags(QUALITY_NORMAL, l.req.position)
       /\ l.tolerances = <<3, 2>>
       /\ l.pixels.sws_algorithm = SwsAlgorithm(QUALITY_NORMAL)

\* C16: a seek that fails does not end the call: the step that makes the
\* failed seek goes on to the allocation of packet and frame with no outcome
\* set and the demuxer where it was, and the call can still return a Bitmap.
C16_FailedSeekGoesOn ==
    [][\A t \in Threads :
          (pc[t] = "gf_seek" /\ loc'[t].seek_attempted /\ ~loc'[t].seek_ok
           /\ pc'[t] # "gf_seek")
          => /\ pc'[t] = "gf_alloc"
             /\ loc'[t].outcome = "none"
             /\ loc'[t].result = NULL
             /\ loc'[t].remaining = loc[t].remaining
             /\ loc'[t].acq = loc[t].acq /\ loc'[t].rel = loc[t].rel]_vars

\* reached: a call whose seek failed has returned a Bitmap
C16_Witness ==
    \E t \in Threads :
       /\ pc[t] = "gf_ret"
       /\ loc[t].seek_attempted /\ ~loc[t].seek_ok
       /\ loc[t].outcome = "Success"
       /\ loc[t].result # NULL

\* C17: when hardware decoding is asked for and init_hw_device_context answers
\* false, the call goes on to open the decoder and the decoder never gets a
\* device reference; such a call can still return a Bitmap.
C17_NoHardwareGoesOn ==
    /\ [](\A t \in Threads :
             LET l == loc[t] IN
             (InCall(t) /\ l.hw_asked /\ ~l.hw_ok)
             => /\ l.hw_device_ctx = NULL
                /\ l.acq["hwref"] = 0
                /\ pc[t] \notin {"hw_ref_lock", "hw_ref"})
    /\ [][\A t \in Threads :
             (pc[t] = "hw_init" /\ pc'[t] # "hw_init" /\ ~loc'[t].hw_ok)
             => /\ pc'[t] = "gf_codec_open"
                /\ loc'[t].outcome = "none"
                /\ loc'[t].acq = loc[t].acq /\ loc'[t].rel = loc[t].rel]_vars

\* reached: a call that asked for the hardware and did not get it has returned
\* a Bitmap, decoded without a device reference
C17_Witness ==
    \E t \in Threads :
       LET l == loc[t] IN
       /\ pc[t] = "gf_ret"
       /\ l.req.use_hw_dec /\ l.hw_asked /\ ~l.hw_ok
       /\ l.acq["hwref"] = 0
       /\ l.outcome = "Success"
       /\ l.result # NULL

\* C18: when a seek is performed its flag is BACKWARD exactly when the tier is
\* HQ, or Normal with a target of 5 s (10 ticks) or more, and ANY exactly when
\* the tier is Fast, or Normal with a target below 5 s.
C18_SeekFlagByTier ==
    \A t \in Threads :
       LET l == loc[t]
           long == l.req.position >= 5 * 2
       IN (InCall(t) /\ l.seek_attempted)
          => /\ l.seek_flags = "AVSEEK_FLAG_BACKWARD"
                <=> (l.quality = QUALITY_HQ \/ (l.quality = QUALITY_NORMAL /\ long))
             /\ l.seek_flags = "AVSEEK_FLAG_ANY"
                <=> (l.quality = QUALITY_FAST \/ (l.quality = QUALITY_NORMAL /\ ~long))

\* reached: a Normal call with a target of exactly 5 s has sought BACKWARD
C18_Witness ==
    \E t \in Threads :
       /\ InCall(t)
       /\ loc[t].seek_attempted
       /\ loc[t].quality = QUALITY_NORMAL
       /\ loc[t].req.position = 5 * 2
       /\ loc[t].seek_flags = "AVSEEK_FLAG_BACKWARD"

\* the call has decided about its seek
PastSeek(t) == pc[t] \in {"gf_alloc", "gf_read", "gf_receive", "gf_cleanup"}

\* C19 (as stated): the seek is skipped exactly when the target is 0; for
\* every larger target that passed the validation a seek is attempted before
\* decoding.
C19_SeekIffPositive ==
    \A t \in Threads :
       PastSeek(t) => (loc[t].seek_attempted <=> loc[t].req.position > 0)

\* C19 (amended): the seek is skipped exactly when the target is 0 or lies at
\* or above INT64_MAX / 1000000 seconds; for every target between, a seek is
\* attempted before the first packet is read.
C19_SeekIffWithinGuard ==
    \A t \in Threads :
       LET l == loc[t] IN
       /\ PastSeek(t)
          => (l.seek_attempted <=> (l.req.position > 0 /\ l.req.position < SeekLimit))
       /\ (InCall(t) /\ ~PastSeek(t) /\ pc[t] # "gf_ret")
          => (~l.seek_attempted /\ l.frames_decoded = 0)

\* reached: a call with a target at the limit reads packets without having
\* sought
C19_Witness ==
    \E t \in Threads :
       /\ pc[t] = "gf_read"
       /\ loc[t].req.position = SeekLimit
       /\ ~loc[t].seek_attempted

\* C20: whenever a seek was attempted, successful or not, the decoder has been
\* flushed by the time the loop reads its first packet, so that every frame
\* the loop evaluates was decoded after the flush; without a seek there is no
\* flush.
C20_FlushedAfterSeek ==
    \A t \in Threads :
       LET l == loc[t] IN
       /\ (InCall(t) /\ l.seek_attempted
           /\ (pc[t] \in {"gf_read", "gf_receive"} \/ l.frames_decoded > 0))
          => l.flushed
       /\ (InCall(t) /\ l.flushed) => l.seek_attempted

\* reached: after a failed seek and a flush the loop has decoded a frame
C20_Witness ==
    \E t \in Threads :
       LET l == loc[t] IN
       /\ pc[t] = "gf_receive"
       /\ l.seek_attempted /\ ~l.seek_ok
       /\ l.flushed
       /\ l.frames_decoded > 0

\* C21: for a target above 0 a frame whose time lies below the target minus
\* the tier's skip tolerance is discarded by the skip test, with no conversion
\* attempted on it, and the inner loop goes on to the next frame: no frame
\* handed to the conversion lies below that threshold, and while all frames
\* so far lie below it nothing has been accepted or converted.
C21_EarlyFramesSkipped ==
    /\ [](\A t \in Threads :
             LET l == loc[t]
                 threshold == l.req.position - SkipTolerance(l.quality)
             IN (InCall(t) /\ l.req.position > 0 /\ l.frames_decoded > 0)
                => /\ l.accepts >= 1 => l.sel_time >= threshold
                   /\ l.prev_max < threshold
                      => /\ l.too_early
                         /\ l.accepts = 0 /\ ~l.conv_failed
                         /\ l.pixels = NoPixels /\ l.bitmap = NULL)
    /\ [][\A t \in Threads :
             (loc'[t].frames_decoded # loc[t].frames_decoded /\ loc'[t].too_early)
             => /\ pc'[t] = "gf_receive"
                /\ ~loc'[t].frame_ref
                /\ loc'[t].accepts = loc[t].accepts
                /\ loc'[t].pixels = loc[t].pixels]_vars

\* reached: the Fast tier with the target 4 s has skipped a frame at 0 s,
\* more than 3 s before the target, and converted nothing
C21_Witness ==
    \E t \in Threads :
       LET l == loc[t] IN
       /\ pc[t] = "gf_receive"
       /\ l.quality = QUALITY_FAST /\ l.req.position = 8
       /\ l.too_early
       /\ l.prev_max = 0
       /\ l.accepts = 0 /\ l.pixels = NoPixels

\* C22: in every state of a targeted extraction the number of frames decoded
\* so far is at most the limit of 300, also when a packet yields several
\* frames.
C22_FrameCountBounded ==
    \A t \in Threads : loc[t].frames_decoded <= MAX_FRAMES

\* C23 (as stated): when no frame of the stream carries a timestamp and the
\* target is above 0, no frame is accepted, whatever the tier: the call ends
\* as NoFrameFound.
C23_UntimedNeverAccepted ==
    \A t \in Threads :
       LET l == loc[t] IN
       (InCall(t) /\ l.req.file = Untimed /\ l.req.position > 0)
       => /\ l.accepts = 0
          /\ (pc[t] = "gf_ret" /\ l.frames_decoded >= 1)
                => (l.outcome = "NoFrameFound" /\ l.result = NULL)

\* C23 (amended): a frame without timestamps counts as a frame at 0 s. When
\* no frame of the stream carries a timestamp and the target is above the
\* tier's match tolerance, no frame is accepted and the call ends as
\* NoFrameFound, at the frame limit or at the end of input; when the target
\* is above 0 and within the match tolerance, the first frame is accepted.
C23_UntimedAcceptedOnlyNearZero ==
    \A t \in Threads :
       LET l == loc[t] IN
       (InCall(t) /\ l.req.file = Untimed /\ l.req.position > 0)
       => IF l.req.position > MatchTolerance(l.quality)
          THEN /\ l.accepts = 0
               /\ l.result = NULL
               /\ (pc[t] = "gf_ret" /\ l.frames_decoded >= 1)
                     => l.outcome = "NoFrameFound"
          ELSE l.frames_decoded >= 1 => (l.accepts >= 1 /\ l.sel_time = 0)

\* reached: the Normal tier with the target 1.5 s has decoded untimed frames
\* up to the limit and returned NoFrameFound
C23_Witness ==
    \E t \in Threads :
       LET l == loc[t] IN
       /\ pc[t] = "gf_ret"
       /\ l.req.file = Untimed /\ l.req.position = 3 /\ l.quality = QUALITY_NORMAL
       /\ l.frames_decoded >= MAX_FRAMES
       /\ l.accepts = 0
       /\ l.outcome = "NoFrameFound"

\* the call has entered the decode-and-match loop
InLoop(l) == l.acq["frame"] >= 1

\* C24 (as stated): a packet the decoder rejects ends the call with the error
\* as its outcome.
C24_SendErrorPropagated ==
    \A t \in Threads :
       LET l == loc[t] IN
       (InCall(t) /\ l.rejected)
       => /\ pc[t] = "gf_ret"
          /\ l.outcome \notin {"Success", "NoFrameFound", "none"}
          /\ l.result = NULL

\* C24 (amended): the decode-and-match loop ends in exactly one of two
\* outcomes, success with a Bitmap or NoFrameFound with null; a packet the
\* decoder rejects is dropped and the loop goes on with the next packet, with
\* no outcome set.
C24_LoopEndsInOneOfTwo ==
    /\ [](\A t \in Threads :
             LET l == loc[t] IN
             (pc[t] = "gf_ret" /\ InLoop(l))
             => /\ l.outcome \in {"Success", "NoFrameFound"}
                /\ l.outcome = "Success" <=> l.result # NULL
                /\ l.outcome = "Success" <=> l.frame_found)
    /\ [][\A t \in Threads :
             (~loc[t].rejected /\ loc'[t].rejected)
             => /\ pc'[t] = "gf_read"
                /\ loc'[t].outcome = "none"
                /\ ~loc'[t].packet_ref
                /\ loc'[t].frames_decoded = loc[t].frames_decoded
                /\ loc'[t].rel = loc[t].rel]_vars

\* reached: a call one of whose packets the decoder rejected has returned a
\* Bitmap
C24_Witness ==
    \E t \in Threads :
       /\ pc[t] = "gf_ret"
       /\ loc[t].rejected
       /\ loc[t].outcome = "Success"
       /\ loc[t].result # NULL

\* C25: the time of a frame that is compared with the two windows is its pts
\* times the time base (here in ticks of half a second); its best-effort
\* timestamp times the time base is used only when the pts is unavailable.
C25_PtsThenBestEffort ==
    \A t \in Threads :
       LET l == loc[t]
           base == l.req.file.time_base
           Ticks(ts) == (ts * base.num * 2) \div base.den
       IN pc[t] = "ft_ret"
          => \A pts \in l.req.file.pts, best \in l.req.file.best :
                LET time == IF pts # AV_NOPTS_VALUE THEN Ticks(pts)
                            ELSE IF best # AV_NOPTS_VALUE THEN Ticks(best) ELSE 0
                IN /\ l.prev_max = time
                   /\ l.too_early
                      <=> (l.req.position > 0
                           /\ time < l.req.position - SkipTolerance(l.quality))
                   /\ l.accepts = 1 => l.sel_time = time
                   /\ l.accepts = 1
                      <=> (~l.too_early
                           /\ (l.req.position = 0
                               \/ time >= l.req.position - MatchTolerance(l.quality)))

\* reached: a frame with pts 7 and best-effort timestamp 18 in the time base
\* 1/2 was taken at 3.5 s and accepted for the target 4 s
C25_Witness ==
    \E t \in Threads :
       LET l == loc[t] IN
       /\ pc[t] = "ft_ret"
       /\ l.req.file.pts = {7} /\ l.req.file.best = {18}
       /\ l.req.file.time_base = [num |-> 1, den |-> 2]
       /\ l.req.position = 8
       /\ l.prev_max = 7
       /\ l.accepts = 1 /\ l.sel_time = 7

\* C26 (as stated): the filter of frame_to_bitmap depends on the tier only:
\* the point-sampling filter for Fast, a filter between the cheapest and the
\* best for Normal, the best one for HQ.
C26_FilterByCost ==
    \A t \in Threads :
       LET l == loc[t] IN
       (pc[t] = "fb_ret" /\ l.pixels.ref # NULL)
       => /\ l.quality = QUALITY_FAST => l.pixels.sws_algorithm = "SWS_POINT"
          /\ l.quality = QUALITY_NORMAL
             => l.pixels.sws_algorithm \notin {"SWS_POINT", "SWS_LANCZOS"}
          /\ l.quality = QUALITY_HQ => l.pixels.sws_algorithm = "SWS_LANCZOS"

\* C26 (amended): the filter of frame_to_bitmap depends on the tier only, not
\* on the frame or the dimension: fast bilinear for Fast, point sampling for
\* Normal, Lanczos for HQ.
C26_FilterByTier ==
    \A t \in Threads :
       LET l == loc[t] IN
       (pc[t] = "fb_ret" /\ l.pixels.ref # NULL)
       => /\ l.quality = QUALITY_FAST => l.pixels.sws_algorithm = "SWS_FAST_BILINEAR"
          /\ l.quality = QUALITY_NORMAL => l.pixels.sws_algorithm = "SWS_POINT"
          /\ l.quality = QUALITY_HQ => l.pixels.sws_algorithm = "SWS_LANCZOS"
          /\ l.quality \in {QUALITY_FAST, QUALITY_NORMAL, QUALITY_HQ}

\* reached: a frame converted in the Normal tier with the point-sampling
\* filter
C26_Witness ==
    \E t \in Threads :
       /\ pc[t] = "fb_ret"
       /\ loc[t].pixels.ref # NULL
       /\ loc[t].quality = QUALITY_NORMAL
       /\ loc[t].pixels.sws_algorithm = "SWS_POINT"

C28_CropIsCentredSquare ==
    \A t \in Threads :
       LET c == loc[t].crop
           w == loc[t].frame_size[1]
           h == loc[t].frame_size[2]
           side == IF w < h THEN w ELSE h
       IN (pc[t] = "gt_ret" /\ c # NoCrop)
          => /\ c.width = side /\ c.height = side
             /\ w > h => (c.left = (w - h) \div 2 /\ c.top = 0)
             /\ h > w => (c.top = (h - w) \div 2 /\ c.left = 0)
             /\ w = h => (c.left = 0 /\ c.top = 0 /\ c.width = w /\ c.height = h)
             /\ c.left >= 0 /\ c.top >= 0
             /\ c.left + c.width <= w
             /\ c.top + c.height <= h

\* reached: a 16 x 9 snapshot has been cut to the 9 x 9 square that starts 3
\* pixels from the left, and a Bitmap made of it
C28_Witness ==
    \E t \in Threads :
       /\ pc[t] = "gt_ret"
       /\ loc[t].frame_size = <<16, 9>>
       /\ loc[t].crop = [left |-> 3, top |-> 0, width |-> 9, height |-> 9]
       /\ loc[t].result # NULL

\* the call of thread t is past the search for the video stream
PastStreamSearch(t) ==
    \/ pc[t] \in {"gcc_lock", "gcc", "gf_ctx", "gf_hw", "hw_init_lock", "hw_init",
                  "hw_ref_lock", "hw_ref", "gf_codec_open", "gf_seek", "gf_alloc",
                  "gf_read", "gf_receive", "gf_cleanup"}
    \/ pc[t] = "gf_ret" /\ loc[t].outcome \notin {"InvalidArgument", "InvalidPath",
                                                  "OpenError"}

\* C29: from the stream search to the return of the call the selected stream
\* is the lowest-index stream of the container whose media type is video; a
\* container without a video stream ends the call with NoVideoStream, the
\* container closed, no decoder looked up and no decoder context made.
C29_LowestVideoStream ==
    \A t \in Threads :
       LET l == loc[t]
           streams == l.req.file.streams
           idx == l.video_stream_idx
           HasVideo == \E i \in 1..Len(streams) : streams[i] = "video"
       IN /\ (PastStreamSearch(t) /\ HasVideo)
             => /\ idx >= 0 /\ idx < Len(streams)
                /\ streams[idx + 1] = "video"
                /\ \A j \in 0..(idx - 1) : streams[j + 1] # "video"
                /\ l.outcome # "NoVideoStream"
          /\ (PastStreamSearch(t) /\ ~HasVideo)
             => /\ pc[t] = "gf_ret"
                /\ l.outcome = "NoVideoStream"
          /\ l.outcome = "NoVideoStream"
             => /\ l.result = NULL
                /\ l.format_ctx = NULL
                /\ l.acq["container"] = 1 /\ l.rel["container"] = 1
                /\ l.acq["decoder"] = 0
                /\ ~l.resolved /\ l.codec = NULL /\ l.codec_ctx = NULL

\* reached: a call on the file whose streams are audio, video, video reads
\* packets with stream 1 selected
C29_Witness ==
    \E t \in Threads :
       /\ pc[t] = "gf_read"
       /\ loc[t].req.file.streams = <<"audio", "video", "video">>
       /\ loc[t].video_stream_idx = 1
       /\ loc[t].acq["decoder"] = 1

\* C30: when the registry has no decoder for the stream's codec id, the
\* resolver leaves the cache as it was and caches nothing for that id, so that
\* every resolver call for it is a registry lookup; the call ends with
\* NoDecoder, no Bitmap, the container closed and no decoder context made.
C30_MissNotCached ==
    /\ [](\A c \in CodecIds :
             avcodec_find_decoder(c) = NULL
             => /\ g_codec_cache[c] = NULL
                /\ registry_lookups[c] = resolver_calls[c])
    /\ [](\A t \in Threads :
             /\ (loc[t].resolved
                 /\ avcodec_find_decoder(loc[t].req.file.codec_id) = NULL)
                => /\ pc[t] = "gf_ret"
                   /\ loc[t].outcome = "NoDecoder"
             /\ loc[t].outcome = "NoDecoder"
                => /\ loc[t].result = NULL
                   /\ loc[t].codec = NULL
                   /\ loc[t].format_ctx = NULL
                   /\ loc[t].acq["container"] = 1 /\ loc[t].rel["container"] = 1
                   /\ loc[t].acq["decoder"] = 0)
    /\ [][\A t \in Threads :
             (/\ pc[t] = "gcc" /\ pc'[t] # "gcc"
              /\ avcodec_find_decoder(loc[t].req.file.codec_id) = NULL)
             => /\ g_codec_cache' = g_codec_cache
                /\ registry_lookups'[loc[t].req.file.codec_id]
                     = Bump(registry_lookups[loc[t].req.file.codec_id])
                /\ pc'[t] = "gf_ret"]_vars

\* reached: the second resolver call for the codec id the registry lacks has
\* been a second registry lookup, and the call has ended with NoDecoder
C30_Witness ==
    /\ resolver_calls["unknown"] = 2
    /\ registry_lookups["unknown"] = 2
    /\ g_codec_cache["unknown"] = NULL
    /\ \E t \in Threads : pc[t] = "gf_ret" /\ loc[t].outcome = "NoDecoder"

\* C31: a snapshot whose response is not a map that supplies a non-zero
\* integer width, height and stride, the format tag bgr0 and a byte-array
\* data buffer ends with no Bitmap, the response freed, and neither a scaler
\* nor a pixel array asked for.
C31_BadResponseFails ==
    \A t \in Threads :
       LET r == loc[t].response
           Supplied(key) == key \notin r.wrong
           Good == /\ r.map
                   /\ Supplied("w") /\ r.size[1] # 0
                   /\ Supplied("h") /\ r.size[2] # 0
                   /\ Supplied("stride") /\ r.stride # 0
                   /\ Supplied("format") /\ r.format = "bgr0"
                   /\ Supplied("data") /\ r.data
       IN (pc[t] = "gt_ret" /\ loc[t].snapshot.answered /\ ~Good)
          => /\ loc[t].result = NULL
             /\ loc[t].pixels = NoPixels
             /\ loc[t].snapshot.freed
             /\ ~loc[t].snapshot.scaler
             /\ ~loc[t].snapshot.array

\* reached: a snapshot whose response gave the height as a value of another
\* type, after a usable width, has ended with no Bitmap and the response freed
C31_Witness ==
    \E t \in Threads :
       /\ pc[t] = "gt_ret"
       /\ loc[t].snapshot.answered /\ loc[t].snapshot.freed
       /\ loc[t].response.map
       /\ loc[t].response.wrong = {"h"}
       /\ loc[t].response.size = <<16, 9>>
       /\ loc[t].response.stride = 64 /\ loc[t].response.format = "bgr0"
       /\ loc[t].response.data
       /\ loc[t].result = NULL

\* the tri-state says Available
HwAvailable == g_hw_ctx_initialized /\ g_hw_ctx_available

\* C32 (as stated): after any sequence of acquires, cache-clears and the
\* unload cleanup the tri-state is Available if and only if the cached handle
\* is non-null, and available implies initialized.
C32_TriStateAgreesWithHandle ==
    /\ HwAvailable <=> g_hw_device_ctx # NULL
    /\ g_hw_ctx_available => g_hw_ctx_initialized

\* the unload cleanup has released the cached handle
HandleUnloaded ==
    \E t \in Threads : pc[t] \in {"cu_thumb_lock", "cu_thumb", "unloaded"}

\* C32 (amended): a non-null cached handle implies the state Available, and
\* available implies initialized; the state Available with a null handle
\* occurs only after the unload cleanup released the handle, which leaves both
\* flags as they were.
C32_HandleImpliesAvailable ==
    /\ [](/\ g_hw_device_ctx # NULL => HwAvailable
          /\ g_hw_ctx_available => g_hw_ctx_initialized
          /\ (HwAvailable /\ g_hw_device_ctx = NULL) => HandleUnloaded
          /\ g_hw_device_ctx # NULL => dev_refcount[g_hw_device_ctx] >= 1)
    /\ [][\A t \in Threads :
             (pc[t] = "cu_hw" /\ pc'[t] # "cu_hw")
             => /\ g_hw_device_ctx' = NULL
                /\ g_hw_ctx_initialized' = g_hw_ctx_initialized
                /\ g_hw_ctx_available' = g_hw_ctx_available]_vars

\* reached: the unload cleanup is over, the state is Available and the cached
\* handle is null
C32_Witness ==
    /\ \E t \in Threads : pc[t] = "unloaded"
    /\ HwAvailable
    /\ g_hw_device_ctx = NULL

\* the labels at which a thread waits for each mutex
ThumbLockLabels == {"gf_lock", "sv_lock", "cu_thumb_lock"}
CodecLockLabels == {"gcc_lock", "cc_codec_lock", "cu_codec_lock"}
HwLockLabels == {"hw_init_lock", "hw_ref_lock", "cc_hw_lock", "cu_hw_lock"}

\* thread t waits for a mutex that thread u holds
WaitsOn(t, u) ==
    \/ pc[t] \in ThumbLockLabels /\ g_thumb_mutex = u
    \/ pc[t] \in CodecLockLabels /\ g_codec_cache_mutex = u
    \/ pc[t] \in HwLockLabels /\ g_hw_ctx_mutex = u

\* C33: in every interleaving of extractions, cache-clears, registrations and
\* the unload cleanup no thread waits for a mutex held by a thread that waits
\* for one of its own (itself included: no mutex is taken twice); no thread
\* holds g_codec_cache_mutex or g_hw_ctx_mutex while it waits for or holds the
\* other, or while it waits for g_thumb_mutex; and a thread that holds or
\* awaits one of the two inside another mutex holds g_thumb_mutex outside it.
C33_NoLockCycle ==
    /\ \A t, u \in Threads : ~(WaitsOn(t, u) /\ WaitsOn(u, t))
    /\ \A t \in Threads :
          /\ ~(g_codec_cache_mutex = t /\ g_hw_ctx_mutex = t)
          /\ pc[t] \in CodecLockLabels => (g_hw_ctx_mutex # t /\ g_codec_cache_mutex # t)
          /\ pc[t] \in HwLockLabels => (g_codec_cache_mutex # t /\ g_hw_ctx_mutex # t)
          /\ pc[t] \in ThumbLockLabels
                => /\ g_thumb_mutex # t
                   /\ g_codec_cache_mutex # t /\ g_hw_ctx_mutex # t
          /\ (g_codec_cache_mutex = t \/ g_hw_ctx_mutex = t)
                => pc[t] \notin (ThumbLockLabels \cup CodecLockLabels \cup HwLockLabels)

\* reached: an extraction that holds g_thumb_mutex waits for g_hw_ctx_mutex,
\* which the unload cleanup holds
C33_Witness ==
    \E t, u \in Threads :
       /\ pc[t] = "hw_ref_lock" /\ g_thumb_mutex = t
       /\ pc[u] = "cu_hw" /\ g_hw_ctx_mutex = u

\* C34: an extraction whose init_hw_device_context answered true takes its
\* reference under g_hw_ctx_mutex from the handle as it is then: a handle set
\* and alive gives the decoder a counted reference to it; a handle that a
\* cache-clear has meanwhile released and set to null gives the decoder no
\* device context, and the call goes on to open the decoder. A decoder never
\* holds a null or freed device.
C34_HandleRecheckedUnderMutex ==
    /\ [](\A t \in Threads :
             LET l == loc[t] IN
             /\ pc[t] = "hw_ref" => g_hw_ctx_mutex = t
             /\ l.acq["hwref"] > l.rel["hwref"]
                   => (l.hw_device_ctx # NULL /\ dev_refcount[l.hw_device_ctx] >= 1)
             /\ l.hw_device_ctx = NULL => l.acq["hwref"] = l.rel["hwref"])
    /\ [][\A t \in Threads :
             (pc[t] = "hw_ref" /\ pc'[t] # "hw_ref")
             => /\ pc'[t] = "gf_codec_open"
                /\ loc'[t].outcome = "none"
                /\ IF g_hw_device_ctx = NULL
                   THEN /\ loc'[t].hw_device_ctx = NULL
                        /\ loc'[t].acq = loc[t].acq
                        /\ dev_refcount' = dev_refcount
                   ELSE /\ loc'[t].hw_device_ctx = g_hw_device_ctx
                        /\ dev_refcount[g_hw_device_ctx] >= 1
                        /\ dev_refcount'[g_hw_device_ctx]
                             = dev_refcount[g_hw_device_ctx] + 1]_vars

\* reached: a call whose acquire succeeded, and whose handle a cache-clear
\* released before the reference was taken, has returned a Bitmap decoded
\* without a device context
C34_Witness ==
    \E t \in Threads :
       LET l == loc[t] IN
       /\ pc[t] = "gf_ret"
       /\ l.req.use_hw_dec /\ l.hw_asked /\ l.hw_ok
       /\ l.acq["hwref"] = 0
       /\ l.hw_device_ctx = NULL
       /\ l.outcome = "Success"

\* C35: in every tier the skip tolerance is at least the match tolerance, a
\* frame in the skip window is outside the accept window, and for every frame
\* sequence, target and tier the selection without the skip test picks the
\* same frame, or none, as the selection with it.
C35_SkipTestChangesNothing ==
    /\ \A q \in LoopTiers : SkipTolerance(q) >= MatchTolerance(q)
    /\ \A t \in Threads :
          LET l == loc[t]
              p == l.req.position
              q == l.quality
          IN pc[t] = "sl_ret"
             => /\ l.trial.with = l.trial.without
                /\ \A i \in 1..Len(l.trial.times) :
                      (p > 0 /\ l.trial.times[i] < p - SkipTolerance(q))
                      => ~(p = 0 \/ l.trial.times[i] >= p - MatchTolerance(q))

\* reached: with the target 4 s in the tier HQ the frame at 0 s fell in the
\* skip window and the frame at 3.5 s was selected, with and without the test
C35_Witness ==
    \E t \in Threads :
       /\ pc[t] = "sl_ret"
       /\ loc[t].req.position = 8 /\ loc[t].quality = QUALITY_HQ
       /\ loc[t].trial = [times |-> <<0, 7>>, with |-> 2, without |-> 2]

\* C36: for every target and frame sequence the extraction of
\* thumbnail_fast.cpp and the extraction of thumbnail.cpp in the tier Normal
\* decide alike: whether to seek, the seek flag, the frames skipped, the
\* frames handed to the conversion, the frame returned and the outcome.
C36_SingleTierIsNormalTier ==
    \A t \in Threads :
       pc[t] = "cb_ret"
       => /\ loc[t].single.seek = loc[t].tiered.seek
          /\ loc[t].single.flag = loc[t].tiered.flag
          /\ loc[t].single.run.skipped = loc[t].tiered.run.skipped
          /\ loc[t].single.run.offered = loc[t].tiered.run.offered
          /\ loc[t].single.run.accepted = loc[t].tiered.run.accepted
          /\ loc[t].single.outcome = loc[t].tiered.outcome

\* reached: with the target 5 s both seek backward, skip the frame at 0 s and
\* return the frame at 4.5 s
C36_Witness ==
    \E t \in Threads :
       /\ pc[t] = "cb_ret"
       /\ loc[t].req.position = 5 * 2
       /\ loc[t].trial.times = <<0, 9>>
       /\ loc[t].single.seek /\ loc[t].single.flag = "AVSEEK_FLAG_BACKWARD"
       /\ loc[t].single.run = [skipped |-> {1}, offered |-> {2}, accepted |-> 2]
       /\ loc[t].tiered = loc[t].single
       /\ loc[t].single.outcome = "Success"

\* C37: for every target that passes the seek guard and every time base the
\* seek target computed in 64-bit arithmetic is the target in time-base
\* units, floor(t * den / num), and no intermediate product leaves the 64-bit
\* range.
C37_SeekTargetExact ==
    \A t \in Threads :
       LET l == loc[t] IN
       (pc[t] = "st_ret" /\ l.seek_attempted)
       => /\ ~l.seek_target.overflow
          /\ l.seek_target.target
               = (l.req.position * l.seek_target.den * 2) \div l.seek_target.num

====
